---- MODULE Spec2Model ----
(***************************************************************************)
(* Pegasus frontend: the client-side table engines (DataTable, ModalTable) *)
(* and the fetch-owning containers (SiteBoardPage, useApiTable).           *)
(*                                                                         *)
(* JavaScript values are records [t, s, n]: t is the typeof tag, s the     *)
(* characters of a string (a sequence of one-character strings), n the     *)
(* number (or 1/0 for a boolean).  Row collections are small, so the       *)
(* page sizes are small too: one model row stands for the 25 rows that     *)
(* separate two choices of the page-size selector.                         *)
(***************************************************************************)
EXTENDS Integers, Sequences, FiniteSets, TLC

(* ----------------------------------------------------------------------- *)
(* Bounds of the model                                                     *)
(* ----------------------------------------------------------------------- *)

\* Page requests probed around the valid range [1, totalPages].
PageSlack == 2

\* Filter changes the SiteBoard user makes in one run.
MaxFilterChanges == 2

\* Reloads the user of a useApiTable page triggers in one run.
MaxReloads == 2

\* Times the SiteBoard user opens the detail modal in one run.
MaxOpens == 2

\* Filter changes of the SiteBoard user in the runs checked under fairness.
MaxLiveChanges == 1

(* ----------------------------------------------------------------------- *)
(* Characters and strings                                                  *)
(* ----------------------------------------------------------------------- *)

\* UTF-16 code units of the characters the row values and search terms use.
CodeTable ==
  << <<" ", 32>>, <<"-", 45>>,
     <<"0", 48>>, <<"1", 49>>, <<"2", 50>>, <<"3", 51>>, <<"4", 52>>,
     <<"5", 53>>, <<"6", 54>>, <<"7", 55>>, <<"8", 56>>, <<"9", 57>>,
     <<"A", 65>>, <<"B", 66>>, <<"N", 78>>, <<"O", 79>>, <<"S", 83>>,
     <<"[", 91>>, <<"]", 93>>,
     <<"a", 97>>, <<"b", 98>>, <<"c", 99>>, <<"d", 100>>, <<"e", 101>>,
     <<"f", 102>>, <<"i", 105>>, <<"j", 106>>, <<"l", 108>>, <<"n", 110>>,
     <<"o", 111>>, <<"r", 114>>, <<"s", 115>>, <<"t", 116>>, <<"u", 117>> >>

Code(c) == (CHOOSE i \in 1..Len(CodeTable) : CodeTable[i][1] = c) \* index
CodeUnit(c) == CodeTable[Code(c)][2]
CharOf(u) == CodeTable[CHOOSE i \in 1..Len(CodeTable) : CodeTable[i][2] = u][1]

\* String.prototype.toLowerCase, one character: A-Z move by 32.
LowerChar(c) == IF CodeUnit(c) \in 65..90 THEN CharOf(CodeUnit(c) + 32) ELSE c
toLowerCase(s) == [i \in 1..Len(s) |-> LowerChar(s[i])]

IsSpace(c) == c = " "

\* String.prototype.trim: white space removed at both ends.
RECURSIVE TrimStart(_)
TrimStart(s) == IF s # <<>> /\ IsSpace(Head(s)) THEN TrimStart(Tail(s)) ELSE s
RECURSIVE TrimEnd(_)
TrimEnd(s) ==
  IF s # <<>> /\ IsSpace(s[Len(s)]) THEN TrimEnd(SubSeq(s, 1, Len(s) - 1)) ELSE s
trim(s) == TrimEnd(TrimStart(s))

\* String.prototype.includes: needle occurs at some offset of hay.
includes(hay, needle) ==
  \E i \in 0..(Len(hay) - Len(needle)) : SubSeq(hay, i + 1, i + Len(needle)) = needle

\* Relational < on two strings: code units compared left to right.
RECURSIVE StringLess(_, _)
StringLess(a, b) ==
  IF b = <<>> THEN FALSE
  ELSE IF a = <<>> THEN TRUE
  ELSE IF CodeUnit(Head(a)) # CodeUnit(Head(b))
       THEN CodeUnit(Head(a)) < CodeUnit(Head(b))
       ELSE StringLess(Tail(a), Tail(b))

Digits == <<"0", "1", "2", "3", "4", "5", "6", "7", "8", "9">>
IsDigit(c) == \E i \in 1..10 : Digits[i] = c
DigitValue(c) == (CHOOSE i \in 1..10 : Digits[i] = c) - 1

\* Number.prototype.toString for an integer.
RECURSIVE NatToString(_)
NatToString(n) ==
  IF n < 10 THEN <<Digits[n + 1]>>
  ELSE NatToString(n \div 10) \o <<Digits[(n % 10) + 1]>>
NumberToString(n) == IF n < 0 THEN <<"-">> \o NatToString(0 - n) ELSE NatToString(n)

\* ToNumber on a string: trimmed; "" is 0; an optionally signed run of decimal
\* digits is its value; anything else is NaN.  (The strings of the model hold
\* no ".", exponent, hex or "Infinity" forms.)
RECURSIVE DigitsValue(_, _)
DigitsValue(s, acc) ==
  IF s = <<>> THEN acc ELSE DigitsValue(Tail(s), acc * 10 + DigitValue(Head(s)))
AllDigits(s) == s # <<>> /\ \A i \in 1..Len(s) : IsDigit(s[i])
StringToNumber(str) ==
  LET s == trim(str) IN
  IF s = <<>> THEN [nan |-> FALSE, n |-> 0]
  ELSE IF AllDigits(s) THEN [nan |-> FALSE, n |-> DigitsValue(s, 0)]
  ELSE IF Head(s) = "-" /\ AllDigits(Tail(s))
       THEN [nan |-> FALSE, n |-> 0 - DigitsValue(Tail(s), 0)]
  ELSE [nan |-> TRUE, n |-> 0]

(* ----------------------------------------------------------------------- *)
(* JavaScript values                                                       *)
(* ----------------------------------------------------------------------- *)

Str(s) == [t |-> "string", s |-> s, n |-> 0]
Num(n) == [t |-> "number", s |-> <<>>, n |-> n]
Bool(b) == [t |-> "boolean", s |-> <<>>, n |-> IF b THEN 1 ELSE 0]
NullValue == [t |-> "null", s |-> <<>>, n |-> 0]
Undefined == [t |-> "undefined", s |-> <<>>, n |-> 0]
ObjectValue == [t |-> "object", s |-> <<>>, n |-> 0]

\* String(value)
String(v) ==
  CASE v.t = "string" -> v.s
    [] v.t = "number" -> NumberToString(v.n)
    [] v.t = "boolean" -> IF v.n = 1 THEN <<"t", "r", "u", "e">>
                                      ELSE <<"f", "a", "l", "s", "e">>
    [] v.t = "null" -> <<"n", "u", "l", "l">>
    [] v.t = "undefined" -> <<"u", "n", "d", "e", "f", "i", "n", "e", "d">>
    [] OTHER -> <<"[", "o", "b", "j", "e", "c", "t", " ", "O", "b", "j", "e", "c", "t", "]">>

\* row[key]: undefined when the row has no such field.
Field(row, key) == IF key \in DOMAIN row THEN row[key] ELSE Undefined

(* ----------------------------------------------------------------------- *)
(* Sorting: normalisation, comparator, Array.prototype.sort                *)
(* ----------------------------------------------------------------------- *)

\* DataTable's normalize: the sort value of a field, a number or a string.
normalize(value) ==
  CASE value.t \in {"null", "undefined"} -> Str(<<>>)
    [] value.t = "number" -> value
    [] value.t = "boolean" -> Num(value.n)
    [] value.t = "string" -> Str(toLowerCase(value.s))
    [] OTHER -> Str(String(value))

\* ModalTable's normalizeForSort.
normalizeForSort(value) ==
  CASE value.t \in {"null", "undefined"} -> Str(<<>>)
    [] value.t = "number" -> value
    [] value.t = "boolean" -> Num(value.n)
    [] value.t = "string" -> Str(toLowerCase(value.s))
    [] OTHER -> Str(String(value))

\* av < bv on normalized values: two strings compare by code units, any
\* other pair as numbers after ToNumber; a NaN operand makes it false.
Less(av, bv) ==
  IF av.t = "string" /\ bv.t = "string" THEN StringLess(av.s, bv.s)
  ELSE LET an == IF av.t = "string" THEN StringToNumber(av.s)
                                    ELSE [nan |-> FALSE, n |-> av.n]
           bn == IF bv.t = "string" THEN StringToNumber(bv.s)
                                    ELSE [nan |-> FALSE, n |-> bv.n]
       IN ~an.nan /\ ~bn.nan /\ an.n < bn.n

\* A faulty variant of CompareNormalized: the direction is not consulted.
CompareNormalizedAscending(av, bv, dir) ==
  IF av = bv THEN 0 ELSE IF Less(av, bv) THEN 0 - 1 ELSE 1

\* The comparator body, the same text in both tables, on normalized values.
CompareNormalized(av, bv, dir) ==
  IF av = bv THEN 0
  ELSE LET res == IF Less(av, bv) THEN -1 ELSE 1
       IN IF dir = "asc" THEN res ELSE 0 - res

\* DataTable: working.sort((a, b) => ...)
DataTableCompare(a, b, key, dir) ==
  CompareNormalized(normalize(Field(a, key)), normalize(Field(b, key)),
                    dir)

\* ModalTable: working.sort((a, b) => ...)
ModalTableCompare(a, b, key, dir) ==
  CompareNormalized(normalizeForSort(Field(a, key)),
                    normalizeForSort(Field(b, key)), dir)

Range(seq) == {seq[i] : i \in 1..Len(seq)}

\* The comparefn a table hands to Array.prototype.sort.
Compare(table, a, b, key, dir) ==
  IF table = "DataTable" THEN DataTableCompare(a, b, key, dir)
  ELSE ModalTableCompare(a, b, key, dir)

\* The normalized sort values of the rows of a list.
SortValues(list, table, key) ==
  {IF table = "DataTable" THEN normalize(Field(list[i], key))
                          ELSE normalizeForSort(Field(list[i], key)) :
     i \in 1..Len(list)}

\* ECMAScript's "consistent comparator" for the elements of a list; the
\* comparefn reads nothing of a row but its normalized sort value.
ConsistentComparator(list, table, key, dir) ==
  \A a \in SortValues(list, table, key) :
    /\ CompareNormalized(a, a, dir) = 0
    /\ \A b \in SortValues(list, table, key) :
         /\ CompareNormalized(a, b, dir) = 0
              => CompareNormalized(b, a, dir) = 0
         /\ \A c \in SortValues(list, table, key) :
              /\ (/\ CompareNormalized(a, b, dir) = 0
                  /\ CompareNormalized(b, c, dir) = 0)
                   => CompareNormalized(a, c, dir) = 0
              /\ (/\ CompareNormalized(a, b, dir) < 0
                  /\ CompareNormalized(b, c, dir) < 0)
                   => CompareNormalized(a, c, dir) < 0
              /\ (/\ CompareNormalized(a, b, dir) > 0
                  /\ CompareNormalized(b, c, dir) > 0)
                   => CompareNormalized(a, c, dir) > 0

\* Stable insertion: x goes after every element that does not compare greater.
RECURSIVE InsertStable(_, _, _, _, _)
InsertStable(sorted, x, table, key, dir) ==
  IF sorted = <<>> THEN <<x>>
  ELSE IF Compare(table, x, sorted[Len(sorted)], key, dir) >= 0
       THEN Append(sorted, x)
  ELSE Append(InsertStable(SubSeq(sorted, 1, Len(sorted) - 1), x, table,
                           key, dir),
              sorted[Len(sorted)])

RECURSIVE StableSort(_, _, _, _)
StableSort(list, table, key, dir) ==
  IF list = <<>> THEN <<>>
  ELSE InsertStable(StableSort(SubSeq(list, 1, Len(list) - 1), table, key,
                               dir),
                    list[Len(list)], table, key, dir)

AllOrders(list) ==
  {[i \in 1..Len(list) |-> list[f[i]]] :
     f \in {g \in [1..Len(list) -> 1..Len(list)] :
              \A i, j \in 1..Len(list) : g[i] = g[j] => i = j}}

\* Array.prototype.sort(comparefn): the stable order under a consistent
\* comparator; otherwise the order is implementation-defined, any permutation.
ArraySort(list, table, key, dir) ==
  IF ConsistentComparator(list, table, key, dir)
  THEN {StableSort(list, table, key, dir)}
  ELSE AllOrders(list)

(* ----------------------------------------------------------------------- *)
(* Global full-text filter                                                 *)
(* ----------------------------------------------------------------------- *)

\* A faulty variant of ValueMatches: every value is searched through String(),
\* null and objects included.
ValueMatchesAnyType(value, needle) ==
  includes(toLowerCase(String(value)), needle)

\* The callback of Object.values(row).some(...)
ValueMatches(value, needle) ==
  IF value.t \in {"null", "undefined"} THEN FALSE
  ELSE IF value.t \in {"string", "number", "boolean"}
       THEN includes(toLowerCase(String(value)), needle)
       ELSE FALSE

RowMatches(row, needle) == \E k \in DOMAIN row : ValueMatches(row[k], needle)

\* const needle = search.trim().toLowerCase(); filter when it is non-empty.
GlobalFilter(list, text) ==
  LET needle == toLowerCase(trim(text))
      Keep(row) == RowMatches(row, needle)
  IN IF Len(needle) > 0 THEN SelectSeq(list, Keep) ELSE list

(* ----------------------------------------------------------------------- *)
(* Array.prototype.slice and Math.ceil of a quotient                       *)
(* ----------------------------------------------------------------------- *)

Min(a, b) == IF a < b THEN a ELSE b
Max(a, b) == IF a > b THEN a ELSE b

\* list.slice(start, end), zero-based, negative indices counted from the end.
slice(list, start, end) ==
  LET len == Len(list)
      from == IF start < 0 THEN Max(len + start, 0) ELSE Min(start, len)
      to == IF end < 0 THEN Max(len + end, 0) ELSE Min(end, len)
  IN SubSeq(list, from + 1, to)

\* A faulty variant of CeilDiv: Math.floor in place of Math.ceil.
FloorDiv(a, b) == a \div b

\* Math.ceil(a / b) for a >= 0 and b > 0.
CeilDiv(a, b) == IF a % b = 0 THEN a \div b ELSE (a \div b) + 1

(* ----------------------------------------------------------------------- *)
(* Row collections and user inputs                                         *)
(* ----------------------------------------------------------------------- *)

\* Five rows: ties on k, ties on name up to case, hidden primitive, null and
\* object fields.
RowsPaged ==
  << [k |-> Num(2), name |-> Str(<<"A", "b">>), flag |-> Bool(TRUE)],
     [k |-> Num(1), name |-> Str(<<"b">>), flag |-> Bool(FALSE)],
     [k |-> Num(2), name |-> Str(<<"a", "b">>), flag |-> NullValue],
     [k |-> Num(1), name |-> Str(<<"B">>), flag |-> ObjectValue],
     [k |-> Num(3), name |-> Str(<<"N", "o", " ", "S", "i">>), flag |-> Bool(TRUE)] >>

\* Three rows whose k field is a string in two rows and a number in one; the
\* second row has no name field.
RowsMixed ==
  << [k |-> Str(<<"b">>), name |-> Str(<<"a">>)],
     [k |-> Num(5)],
     [k |-> Str(<<"b">>), name |-> Str(<<"c">>)] >>

\* Three rows whose k field is a boolean.
RowsFlags ==
  << [k |-> Bool(TRUE), name |-> Str(<<"c">>)],
     [k |-> Bool(FALSE), name |-> Str(<<"a">>)],
     [k |-> Bool(TRUE), name |-> Str(<<"b">>)] >>

\* A prop that holds an array or null.
ArrayOf(list) == [isNull |-> FALSE, rows |-> list]
Null == [isNull |-> TRUE, rows |-> <<>>]

Arrays ==
  {ArrayOf(<<>>), ArrayOf(RowsPaged), ArrayOf(RowsMixed), ArrayOf(RowsFlags)}

\* The column keys the page hands to the table.
Columns == {"k", "name"}
NoKey == "(null)"

\* Texts typed into the search box.
SearchTerms ==
  { <<>>, <<" ">>, <<" ", "O", " ", "S">>, <<"t", "r", "u">>, <<"1">>,
    <<"o", "b", "j">> }

\* The <option> values 25, 50, 100, 200 of the page-size selector, in units
\* of 25 rows; the other strings exercise Number(value) || pageSizeState.
PageSizeOptions == { <<"1">>, <<"2">>, <<"4">>, <<"8">> }
PageSizeValues == PageSizeOptions \cup { <<"0">>, <<"a">>, <<>> }

\* The pageSize prop a caller gives ModalTable: 0 turns pagination off.
ModalPageSizes == {0, 2}

NoError == "(null)"
ApiError == "Erreur API"

(* ----------------------------------------------------------------------- *)
(* State                                                                   *)
(* ----------------------------------------------------------------------- *)

VARIABLES
  component,      \* the component under observation: DataTable, ModalTable,
                  \* SiteBoard, useApiTable, RecordDetailModal or SiteBoardModal (the detail
                  \* modal of the SiteBoard)
  data,           \* DataTable prop data
  rows,           \* ModalTable prop rows
  isLoading,      \* prop isLoading of the mounted table
  error,          \* prop error of the mounted table
  search,         \* useState search
  sortKey,        \* useState sortKey
  sortDirection,  \* useState sortDirection
  currentPage,    \* DataTable useState currentPage (1-based)
  pageSizeState,  \* DataTable useState pageSizeState
  working,        \* DataTable: the filtered and sorted array of processedData
  pageIndex,      \* ModalTable useState pageIndex (0-based)
  pageSize,       \* ModalTable prop pageSize
  processedRows,  \* ModalTable: the memoized processedRows
  resetPending,   \* ModalTable: the page-reset effect is scheduled
  filters,        \* SiteBoardPage useState filters
  stats,          \* SiteBoardPage useState stats
  statsLoading,   \* SiteBoardPage useState statsLoading
  statsError,     \* SiteBoardPage useState statsError
  energieData,    \* SiteBoardPage useState energieData
  energieLoading, \* SiteBoardPage useState energieLoading
  energieError,   \* SiteBoardPage useState energieError
  requests,       \* SiteBoardPage: the fetches in flight, each with the
                  \* `mounted` flag and the abort signal of its effect run
  changes,        \* SiteBoardPage: the runs of the [filters] effects so far
  fetches,        \* useApiTable: the fetchData calls whose promise is pending
  issued,         \* useApiTable: the fetchData calls made so far
  events,         \* useApiTable: the triggering events so far (mount, reload)
  mounted,        \* useApiTable: the view that owns the hook is mounted
  settled,        \* history: how the most recently issued fetchData call ended
  detailRow,      \* page state: the row handed to RecordDetailModal, or null
  isDetailOpen,   \* page state: the isOpen prop of RecordDetailModal
  detailColumns,  \* the columns prop of RecordDetailModal (its keys)
  modalKind,      \* SiteBoard: the kind of the open detail modal, or null
  modalCustom,    \* SiteBoard: endpoint and title of a custom modal, or null
  modalRows,      \* SiteBoard: the rows handed to ModalTable, or null
  modalLoading,   \* SiteBoard: the loading flag of the detail modal
  modalError,     \* SiteBoard: the error message of the detail modal, or null
  modalRequests,  \* SiteBoard: the detail requests whose promise is pending
  modalOpens,     \* SiteBoard: the detail modals opened so far
  last            \* history: the last handler that ran, the stored page index
                  \* before it, and its argument (a text or a number)

tableVars ==
  <<component, data, rows, isLoading, error, search, sortKey, sortDirection,
    currentPage, pageSizeState, working, pageIndex, pageSize, processedRows,
    resetPending, last>>

boardVars ==
  <<filters, stats, statsLoading, statsError, energieData, energieLoading,
    energieError, requests, changes>>

hookVars == <<fetches, issued, events, mounted, settled>>

detailVars == <<detailRow, isDetailOpen, detailColumns>>

modalVars ==
  <<modalKind, modalCustom, modalRows, modalLoading, modalError, modalRequests,
    modalOpens>>

(* ----------------------------------------------------------------------- *)
(* DataTable                                                               *)
(* ----------------------------------------------------------------------- *)

\* const hasData = Array.isArray(data) && data.length > 0
hasData(d) == ~d.isNull /\ Len(d.rows) > 0

\* A faulty variant of InputAfterMemo: `let working = originalRows`, so that
\* without a search term the sort reorders the caller's array itself.
InputAfterMemoAliased(input, w, srch) ==
  IF ~input.isNull /\ trim(srch) = <<>> THEN ArrayOf(w) ELSE input

\* The caller's array once the memo has run.  `let working = [...originalRows]`
\* (DataTable) and `let working = [...safeRows]` (ModalTable) copy it, filter
\* returns a new array, and sort reorders `working` only.
InputAfterMemo(input, w, srch) == input

\* processedData, first half: the arrays `working` can be after filter and sort.
DataTableWorking(d, srch, key, dir) ==
  IF ~hasData(d) THEN {<<>>}
  ELSE LET filtered == GlobalFilter(d.rows, srch)
       IN IF key # NoKey THEN ArraySort(filtered, "DataTable", key, dir)
          ELSE {filtered}

\* DataTableWorking tabulated over the props and states of the model.
DataTableWorkingMemo ==
  [x \in (Arrays \cup {Null}) \X SearchTerms \X (Columns \cup {NoKey})
         \X {"asc", "desc"} |-> DataTableWorking(x[1], x[2], x[3], x[4])] @@ <<>>

\* A faulty variant of processedData: the requested page is used unclamped.
processedDataUnclamped(d, w, page, size) ==
  IF ~hasData(d)
  THEN [pageItems |-> <<>>, totalFiltered |-> 0, totalPages |-> 1]
  ELSE LET start == (page - 1) * size
       IN [pageItems |-> slice(w, start, start + size),
           totalFiltered |-> Len(w),
           totalPages |-> Max(1, CeilDiv(Len(w), size))]

\* processedData, second half: the pagination of `working`.
processedData(d, w, page, size) ==
  IF ~hasData(d)
  THEN [pageItems |-> <<>>, totalFiltered |-> 0, totalPages |-> 1]
  ELSE LET totalFiltered == Len(w)
           totalPages == Max(1, CeilDiv(totalFiltered, size))
           safePage == Min(Max(1, page), totalPages)
           start == (safePage - 1) * size
       IN [pageItems |-> slice(w, start, start + size),
           totalFiltered |-> totalFiltered,
           totalPages |-> totalPages]

totalItems == processedData(data, working, currentPage, pageSizeState).totalFiltered
totalPages == processedData(data, working, currentPage, pageSizeState).totalPages
pageData == processedData(data, working, currentPage, pageSizeState).pageItems

\* The messages of the body states that are not the table.
BodyMessage(state) ==
  CASE state = "loading" -> "Chargement des données en cours..."
    [] state = "empty" -> "Aucune donnée disponible pour le moment."
    [] state = "noresult" -> "Aucun résultat ne correspond à votre recherche."
    [] OTHER -> ""

\* A faulty variant of BodyState: the rows are looked at before isLoading.
BodyStateDataFirst(loading, d, items) ==
  IF ~hasData(d) THEN "empty"
  ELSE IF loading THEN "loading"
  ELSE IF Len(items) = 0 THEN "noresult"
  ELSE "table"

\* isLoading ? loading : !hasData ? empty : pageData.length === 0 ? noresult
\* : the table.
BodyState(loading, d, items) ==
  IF loading THEN "loading"
  ELSE IF ~hasData(d) THEN "empty"
  ELSE IF Len(items) = 0 THEN "noresult"
  ELSE "table"

\* The body shows the table: not loading, has data, the page has rows.
TableShown == ~isLoading /\ hasData(data) /\ Len(pageData) # 0
\* The footer (page-size selector and navigation) is rendered.
FooterShown == TableShown /\ hasData(data) /\ totalPages > 1

DataTableInit ==
  /\ data = Null
  /\ isLoading = TRUE
  /\ error = NoError
  /\ currentPage = 1
  /\ pageSizeState = 2
  /\ working = <<>>

\* What a DataTable handler cannot touch: the other components' state.
ModalUnchanged ==
  UNCHANGED <<rows, pageIndex, pageSize, processedRows, resetPending, boardVars,
              hookVars, detailVars, modalVars>>

\* A faulty variant of SortToggle: a new sort key keeps the old direction.
SortToggleKeepingDirection(key) ==
  IF sortKey = key
  THEN /\ sortDirection' = (IF sortDirection = "asc" THEN "desc" ELSE "asc")
       /\ sortKey' = sortKey
  ELSE /\ sortKey' = key
       /\ sortDirection' = sortDirection

\* The sort state after a click on the header of column key.
SortToggle(key) ==
  IF sortKey = key
  THEN /\ sortDirection' = (IF sortDirection = "asc" THEN "desc" ELSE "asc")
       /\ sortKey' = sortKey
  ELSE /\ sortKey' = key
       /\ sortDirection' = "asc"

handleSort(key) ==
  /\ component = "DataTable"
  /\ TableShown
  /\ currentPage' = 1
  /\ SortToggle(key)
  /\ working' \in DataTableWorkingMemo[<<data, search, sortKey', sortDirection'>>]
  /\ data' = InputAfterMemo(data, working', search)
  /\ last' = [op |-> "sort", page |-> currentPage, text |-> <<key>>, num |-> 0]
  /\ UNCHANGED <<component, isLoading, error, search, pageSizeState>>
  /\ ModalUnchanged

\* A faulty variant of onSearchChange: setCurrentPage(1) is left out.
onSearchChangeKeepingPage(value) ==
  /\ component = "DataTable"
  /\ hasData(data)
  /\ value # search
  /\ search' = value
  /\ working' \in DataTableWorkingMemo[<<data, value, sortKey, sortDirection>>]
  /\ data' = InputAfterMemo(data, working', value)
  /\ last' = [op |-> "search", page |-> currentPage, text |-> value, num |-> 0]
  /\ UNCHANGED <<component, isLoading, error, sortKey, sortDirection,
                 pageSizeState, currentPage>>
  /\ ModalUnchanged

\* onChange of the search input, rendered whenever hasData.
onSearchChange(value) ==
  /\ component = "DataTable"
  /\ hasData(data)
  /\ value # search
  /\ search' = value
  /\ currentPage' = 1
  /\ working' \in DataTableWorkingMemo[<<data, value, sortKey, sortDirection>>]
  /\ data' = InputAfterMemo(data, working', value)
  /\ last' = [op |-> "search", page |-> currentPage, text |-> value, num |-> 0]
  /\ UNCHANGED <<component, isLoading, error, sortKey, sortDirection,
                 pageSizeState>>
  /\ ModalUnchanged

\* A faulty variant of goToPageTarget: the early return on !hasData is left out.
goToPageTargetUnguarded(d, page, pages, stored) == Min(Max(1, page), pages)

\* The value goToPage(page) stores.
goToPageTarget(d, page, pages, stored) ==
  IF ~hasData(d) THEN stored ELSE Min(Max(1, page), pages)

\* The pages goToPage is asked for: the footer buttons ask for 1,
\* currentPage - 1, currentPage + 1 and totalPages; the handler admits any
\* number, so it is exercised around the whole valid range.
PageRequests == (1 - PageSlack)..(totalPages + PageSlack)

\* const goToPage = (page) => { if (!hasData) return; ... setCurrentPage(safePage) }
goToPage(page) ==
  /\ component = "DataTable"
  /\ currentPage' = goToPageTarget(data, page, totalPages, currentPage)
  /\ last' = [op |-> "page", page |-> currentPage, text |-> <<>>, num |-> page]
  /\ UNCHANGED <<component, data, isLoading, error, search, sortKey,
                 sortDirection, pageSizeState, working>>
  /\ ModalUnchanged

\* Number(value): NaN and 0 are falsy.
NumberOrZero(value) ==
  LET n == StringToNumber(value) IN IF n.nan THEN 0 ELSE n.n

\* A faulty variant of handlePageSizeChange: setCurrentPage(1) is left out.
handlePageSizeChangeKeepingPage(value) ==
  LET parsed == NumberOrZero(value)
      newSize == IF parsed # 0 THEN parsed ELSE pageSizeState
  IN /\ component = "DataTable"
     /\ FooterShown
     /\ last' = [op |-> "pageSize", page |-> currentPage, text |-> value, num |-> 0]
     /\ pageSizeState' = newSize
     /\ UNCHANGED <<component, data, isLoading, error, search, sortKey,
                    sortDirection, working, currentPage>>
     /\ ModalUnchanged

\* const handlePageSizeChange = (value) => { ... }
handlePageSizeChange(value) ==
  LET parsed == NumberOrZero(value)
      newSize == IF parsed # 0 THEN parsed ELSE pageSizeState
  IN /\ component = "DataTable"
     /\ FooterShown
     /\ last' = [op |-> "pageSize", page |-> currentPage, text |-> value, num |-> 0]
     /\ IF newSize = pageSizeState
        THEN UNCHANGED <<pageSizeState, currentPage>>
        ELSE /\ pageSizeState' = newSize
             /\ currentPage' = 1
     /\ UNCHANGED <<component, data, isLoading, error, search, sortKey,
                    sortDirection, working>>
     /\ ModalUnchanged

\* useApiTable.fetchData starts: setIsLoading(true); setError(null).
ParentLoading ==
  /\ component = "DataTable"
  /\ isLoading' = TRUE
  /\ error' = NoError
  /\ last' = [op |-> "loading", page |-> currentPage, text |-> <<>>, num |-> 0]
  /\ UNCHANGED <<component, data, search, sortKey, sortDirection, currentPage,
                 pageSizeState, working>>
  /\ ModalUnchanged

\* A fetch of useApiTable ends well: setData(json); setIsLoading(false).
ParentData(d) ==
  /\ component = "DataTable"
  /\ working' \in DataTableWorkingMemo[<<d, search, sortKey, sortDirection>>]
  /\ data' = InputAfterMemo(d, working', search)
  /\ isLoading' = FALSE
  /\ last' = [op |-> "data", page |-> currentPage, text |-> <<>>, num |-> 0]
  /\ UNCHANGED <<component, error, search, sortKey, sortDirection, currentPage,
                 pageSizeState>>
  /\ ModalUnchanged

\* A fetch of useApiTable fails: setError(message); setData(null);
\* setIsLoading(false).
ParentFailure ==
  /\ component = "DataTable"
  /\ data' = Null
  /\ error' = ApiError
  /\ isLoading' = FALSE
  /\ working' \in DataTableWorkingMemo[<<Null, search, sortKey, sortDirection>>]
  /\ last' = [op |-> "failure", page |-> currentPage, text |-> <<>>, num |-> 0]
  /\ UNCHANGED <<component, search, sortKey, sortDirection, currentPage,
                 pageSizeState>>
  /\ ModalUnchanged

DataTableNext ==
  \/ \E key \in Columns : handleSort(key)
  \/ \E value \in SearchTerms : onSearchChange(value)
  \/ \E page \in PageRequests : goToPage(page)
  \/ \E value \in PageSizeValues : handlePageSizeChange(value)
  \/ ParentLoading
  \/ \E d \in Arrays : ParentData(d)
  \/ ParentFailure

(* ----------------------------------------------------------------------- *)
(* ModalTable                                                              *)
(* ----------------------------------------------------------------------- *)

\* const safeRows = rows ?? []
safeRows(r) == IF r.isNull THEN <<>> ELSE r.rows

\* The useMemo: the arrays processedRows can be after filter and sort.
ModalTableWorking(r, srch, key, dir) ==
  LET filtered == GlobalFilter(safeRows(r), srch)
  IN IF key # NoKey THEN ArraySort(filtered, "ModalTable", key, dir)
     ELSE {filtered}

\* ModalTableWorking tabulated over the props and states of the model.
ModalTableWorkingMemo ==
  [x \in (Arrays \cup {Null}) \X SearchTerms \X (Columns \cup {NoKey})
         \X {"asc", "desc"} |-> ModalTableWorking(x[1], x[2], x[3], x[4])] @@ <<>>

\* effectivePageSize, pageCount, currentPage, start, end, pagedRows.
ModalPage(processed, index, size) ==
  LET filteredCount == Len(processed)
      effectivePageSize == IF size > 0 THEN size ELSE Len(processed)
      pageCount == Max(1, CeilDiv(filteredCount, Max(1, effectivePageSize)))
      current == Min(index, pageCount - 1)
      start == current * effectivePageSize
      end == start + effectivePageSize
  IN [pageCount |-> pageCount, currentPage |-> current,
      pagedRows |-> slice(processed, start, end)]

pageCount == ModalPage(processedRows, pageIndex, pageSize).pageCount
modalCurrentPage == ModalPage(processedRows, pageIndex, pageSize).currentPage
pagedRows == ModalPage(processedRows, pageIndex, pageSize).pagedRows

\* {!error && hasDataToShow && ...}: the table is rendered.
ModalTableShown == error = NoError /\ Len(pagedRows) > 0
\* {pageCount > 1 && ...}: the previous/next buttons are rendered.
ModalPaginationShown == ModalTableShown /\ pageCount > 1

ModalTableInit ==
  /\ rows = Null
  /\ pageIndex = 0
  /\ pageSize \in ModalPageSizes
  /\ processedRows = <<>>
  /\ resetPending = FALSE

\* What a ModalTable handler cannot touch: the other components' state.
DataTableUnchanged ==
  UNCHANGED <<data, currentPage, pageSizeState, working, boardVars, hookVars,
              detailVars, modalVars>>

\* A user event or a response is handled once the scheduled effect has run.
ModalIdle == component = "ModalTable" /\ ~resetPending

ModalHandleSort(key) ==
  /\ ModalIdle
  /\ ModalTableShown
  /\ SortToggle(key)
  /\ processedRows' \in ModalTableWorkingMemo[<<rows, search, sortKey', sortDirection'>>]
  /\ rows' = InputAfterMemo(rows, processedRows', search)
  /\ resetPending' = TRUE
  /\ last' = [op |-> "sort", page |-> pageIndex, text |-> <<key>>, num |-> 0]
  /\ UNCHANGED <<component, isLoading, error, search, pageIndex, pageSize>>
  /\ DataTableUnchanged

\* onChange of the search input (enableGlobalFilter): setSearch(value).
ModalSearchChange(value) ==
  /\ ModalIdle
  /\ value # search
  /\ search' = value
  /\ processedRows' \in ModalTableWorkingMemo[<<rows, value, sortKey, sortDirection>>]
  /\ rows' = InputAfterMemo(rows, processedRows', value)
  /\ resetPending' = TRUE
  /\ last' = [op |-> "search", page |-> pageIndex, text |-> value, num |-> 0]
  /\ UNCHANGED <<component, isLoading, error, sortKey, sortDirection,
                 pageIndex, pageSize>>
  /\ DataTableUnchanged

\* "Précédent": setPageIndex((p) => Math.max(0, p - 1))
ModalPrevious ==
  /\ ModalIdle
  /\ ModalPaginationShown
  /\ modalCurrentPage # 0
  /\ pageIndex' = Max(0, pageIndex - 1)
  /\ last' = [op |-> "previous", page |-> pageIndex, text |-> <<>>, num |-> 0]
  /\ UNCHANGED <<component, rows, isLoading, error, search, sortKey,
                 sortDirection, pageSize, processedRows, resetPending>>
  /\ DataTableUnchanged

\* "Suivant": setPageIndex((p) => Math.min(pageCount - 1, p + 1))
ModalNextPage ==
  /\ ModalIdle
  /\ ModalPaginationShown
  /\ ~(modalCurrentPage >= pageCount - 1)
  /\ pageIndex' = Min(pageCount - 1, pageIndex + 1)
  /\ last' = [op |-> "next", page |-> pageIndex, text |-> <<>>, num |-> 0]
  /\ UNCHANGED <<component, rows, isLoading, error, search, sortKey,
                 sortDirection, pageSize, processedRows, resetPending>>
  /\ DataTableUnchanged

\* A faulty variant of ResetPageEffect: the effect leaves the page index.
ResetPageEffectKeepingPage ==
  /\ component = "ModalTable"
  /\ resetPending
  /\ pageIndex' = pageIndex
  /\ resetPending' = FALSE
  /\ last' = [op |-> "effect", page |-> pageIndex, text |-> <<>>, num |-> 0]
  /\ UNCHANGED <<component, rows, isLoading, error, search, sortKey,
                 sortDirection, pageSize, processedRows>>
  /\ DataTableUnchanged

\* useEffect(() => { setPageIndex(0); }, [search, sortKey, sortDirection, rows])
ResetPageEffect ==
  /\ component = "ModalTable"
  /\ resetPending
  /\ pageIndex' = 0
  /\ resetPending' = FALSE
  /\ last' = [op |-> "effect", page |-> pageIndex, text |-> <<>>, num |-> 0]
  /\ UNCHANGED <<component, rows, isLoading, error, search, sortKey,
                 sortDirection, pageSize, processedRows>>
  /\ DataTableUnchanged

\* The owner's request ends well: setModalRows(json); setModalLoading(false).
ModalRows(r) ==
  /\ ModalIdle
  /\ processedRows' \in ModalTableWorkingMemo[<<r, search, sortKey, sortDirection>>]
  /\ rows' = InputAfterMemo(r, processedRows', search)
  /\ isLoading' = FALSE
  /\ resetPending' = TRUE
  /\ last' = [op |-> "data", page |-> pageIndex, text |-> <<>>, num |-> 0]
  /\ UNCHANGED <<component, error, search, sortKey, sortDirection, pageIndex,
                 pageSize>>
  /\ DataTableUnchanged

\* The owner's request fails: setModalError(message); setModalLoading(false).
ModalFailure ==
  /\ ModalIdle
  /\ error' = ApiError
  /\ isLoading' = FALSE
  /\ last' = [op |-> "failure", page |-> pageIndex, text |-> <<>>, num |-> 0]
  /\ UNCHANGED <<component, rows, search, sortKey, sortDirection, pageIndex,
                 pageSize, processedRows, resetPending>>
  /\ DataTableUnchanged

ModalTableNext ==
  \/ \E key \in Columns : ModalHandleSort(key)
  \/ \E value \in SearchTerms : ModalSearchChange(value)
  \/ ModalPrevious
  \/ ModalNextPage
  \/ ResetPageEffect
  \/ \E r \in Arrays : ModalRows(r)
  \/ ModalFailure

(* ----------------------------------------------------------------------- *)
(* useApiTable                                                             *)
(* ----------------------------------------------------------------------- *)

\* Messages of the errors fetchData can catch.  The first is the hook's own
\* text for a non-2xx status (ApiError), the second its text for a body that
\* is not an array; the next two are the platform's (a rejected fetch, a body
\* that is not JSON); the last is the hook's text for a thrown non-Error.
NotArrayError == "La reponse de l'API n'est pas un tableau JSON."
TransportError == "Failed to fetch"
JsonSyntaxError == "Unexpected token < in JSON"
UnknownError == "Erreur inconnue lors de l'appel API."

\* How `await fetch(url)` and `await response.json()` can end.
FetchOutcomes == {"array", "status", "transport", "syntax", "object"}

\* What the try block throws for an outcome, when it throws.
Thrown(outcome) ==
  CASE outcome = "status" -> [isError |-> TRUE, message |-> ApiError]
    [] outcome = "object" -> [isError |-> TRUE, message |-> NotArrayError]
    [] outcome = "transport" -> [isError |-> TRUE, message |-> TransportError]
    [] outcome = "syntax" -> [isError |-> TRUE, message |-> JsonSyntaxError]
    [] OTHER -> [isError |-> FALSE, message |-> ""]

\* A faulty variant of CaughtMessage: the catch block records no message.
CaughtMessageDropped(err) == NoError

\* catch (err): err instanceof Error ? err.message : "Erreur inconnue ..."
CaughtMessage(err) == IF err.isError THEN err.message ELSE UnknownError

\* A pending fetchData call; `shared` records that another call of the hook
\* was pending at some time of its life.
Call(id, shared) == [id |-> id, shared |-> shared]

\* A faulty variant of PendingAfter: a call that failed is issued again.
PendingAfterRetrying(pending, r, outcome) ==
  IF outcome = "array" THEN pending \ {r} ELSE pending

\* The calls pending once call r has ended: the hook issues nothing itself.
PendingAfter(pending, r, outcome) == pending \ {r}

NoOutcome == [data |-> Null, error |-> NoError, ended |-> FALSE]

useApiTableInit ==
  /\ fetches = {Call(1, FALSE)}
  /\ issued = 1
  /\ events = 1
  /\ mounted = TRUE
  /\ settled = NoOutcome

HookFrame ==
  UNCHANGED <<component, rows, search, sortKey, sortDirection, currentPage,
              pageSizeState, working, pageIndex, pageSize, processedRows,
              resetPending, boardVars, detailVars, modalVars>>

\* reload(): fetchData() starts: setIsLoading(true); setError(null); fetch(url).
reload ==
  /\ component = "useApiTable"
  /\ mounted
  /\ events <= MaxReloads
  /\ isLoading' = TRUE
  /\ error' = NoError
  /\ fetches' = {Call(r.id, TRUE) : r \in fetches}
                \cup {Call(issued + 1, fetches # {})}
  /\ issued' = issued + 1
  /\ events' = events + 1
  /\ last' = [op |-> "reload", page |-> 0, text |-> <<>>, num |-> issued + 1]
  /\ UNCHANGED <<data, mounted, settled>>
  /\ HookFrame

\* fetchData after its awaits: setData(json), or the catch block; finally
\* setIsLoading(false).  Nothing consults the call's age or the view's life.
fetchDataSettles(r, outcome, json) ==
  /\ component = "useApiTable"
  /\ r \in fetches
  /\ fetches' = PendingAfter(fetches, r, outcome)
  /\ IF outcome = "array"
     THEN /\ data' = json
          /\ error' = error
     ELSE /\ data' = Null
          /\ error' = CaughtMessage(Thrown(outcome))
  /\ isLoading' = FALSE
  /\ settled' = (IF r.id = issued
                 THEN [data |-> (IF outcome = "array" THEN json ELSE Null),
                       error |-> (IF outcome = "array" THEN NoError
                                  ELSE CaughtMessage(Thrown(outcome))),
                       ended |-> TRUE]
                 ELSE settled)
  /\ last' = [op |-> "settle", page |-> 0, text |-> <<outcome>>, num |-> r.id]
  /\ UNCHANGED <<issued, events, mounted>>
  /\ HookFrame

\* The route changes: the page that calls the hook unmounts.
unmount ==
  /\ component = "useApiTable"
  /\ mounted
  /\ mounted' = FALSE
  /\ last' = [op |-> "unmount", page |-> 0, text |-> <<>>, num |-> 0]
  /\ UNCHANGED <<data, isLoading, error, fetches, issued, events, settled>>
  /\ HookFrame

useApiTableNext ==
  \/ reload
  \/ \E r \in fetches, outcome \in FetchOutcomes, json \in Arrays :
       fetchDataSettles(r, outcome, json)
  \/ unmount

(* ----------------------------------------------------------------------- *)
(* SiteBoardPage: filters, KPI and chart fetches                           *)
(* ----------------------------------------------------------------------- *)

\* FilterState: one of its three tri-state fields and one of its seven
\* multi-valued fields; the others are built into the query the same way.
NeutralFilters ==
  [is_under_maintenance |-> "all", has_solar |-> "all", energie |-> <<>>]
TriStates == {"all", "true", "false"}
EnergieSelections == {<<>>, <<"Solar">>, <<"Solar", "Grid">>}

\* arr.join(","), as URLSearchParams.toString() writes it: "," is "%2C".
RECURSIVE join(_)
join(arr) ==
  IF Len(arr) <= 1 THEN arr ELSE <<Head(arr), "%2C">> \o join(Tail(arr))

\* URLSearchParams.toString(): key=value pairs separated by "&".
RECURSIVE ParamsToString(_)
ParamsToString(p) ==
  IF p = <<>> THEN <<>>
  ELSE <<p[1][1], "=">> \o p[1][2]
       \o (IF Len(p) > 1 THEN <<"&">> \o ParamsToString(Tail(p)) ELSE <<>>)

\* buildQueryString(f): the text of the query, as a sequence of tokens.
buildQueryString(f) ==
  LET addTriBool(key, v) == IF v # "all" THEN << <<key, <<v>> >> >> ELSE <<>>
      addMulti(key, arr) == IF Len(arr) > 0 THEN << <<key, join(arr)>> >> ELSE <<>>
      qs == ParamsToString(addTriBool("is_under_maintenance", f.is_under_maintenance)
                           \o addTriBool("has_solar", f.has_solar)
                           \o addMulti("energie", f.energie))
  IN IF qs # <<>> THEN <<"?">> \o qs ELSE <<>>

\* What the backend returns for a URL: the stats or the buckets of that query.
Response(endpoint, qs) == [endpoint |-> endpoint, qs |-> qs]
NoStats == [endpoint |-> "(null)", qs |-> <<>>]
NoBuckets == [endpoint |-> "[]", qs |-> <<>>]

\* fetch(url, { signal }) of one effect run.
Fetch(id, endpoint, qs) ==
  [id |-> id, endpoint |-> endpoint, qs |-> qs, mounted |-> TRUE, aborted |-> FALSE]

\* The cleanup of an effect run: mounted = false; controller.abort().
Cleanup(r) == [r EXCEPT !.mounted = FALSE, !.aborted = TRUE]

SiteBoardInit ==
  /\ filters = NeutralFilters
  /\ stats = NoStats
  /\ statsLoading = TRUE
  /\ statsError = NoError
  /\ energieData = NoBuckets
  /\ energieLoading = TRUE
  /\ energieError = NoError
  /\ requests = {Fetch(0, "stats", buildQueryString(NeutralFilters)),
                 Fetch(0, "energie_breakdown", buildQueryString(NeutralFilters))}
  /\ changes = 0

TablesUnchanged == UNCHANGED <<tableVars, hookVars, detailVars, modalVars>>

\* setFilters(next): filters is a new object, so both [filters] effects clean
\* up and run again: setStatsLoading(true); setStatsError(null); fetch(...).
setFilters(next) ==
  /\ component = "SiteBoard"
  /\ changes < MaxFilterChanges
  /\ filters' = next
  /\ changes' = changes + 1
  /\ requests' = {Cleanup(r) : r \in requests}
                 \cup {Fetch(changes + 1, "stats", buildQueryString(next)),
                       Fetch(changes + 1, "energie_breakdown", buildQueryString(next))}
  /\ statsLoading' = TRUE
  /\ statsError' = NoError
  /\ energieLoading' = TRUE
  /\ energieError' = NoError
  /\ UNCHANGED <<stats, energieData>>
  /\ TablesUnchanged

\* TriSelect onChange: setFilters((prev) => ({ ...prev, is_under_maintenance: v }))
setIsUnderMaintenance(v) ==
  setFilters([filters EXCEPT !.is_under_maintenance = v])

\* MultiSelectPro onChange: setFilters((prev) => ({ ...prev, energie: next }))
setEnergie(next) == setFilters([filters EXCEPT !.energie = next])

resetFilters == setFilters(NeutralFilters)

\* How a fetch can end: a 2xx response with a body, a failure (network error
\* or non-2xx status), or the AbortError of an aborted signal.
Outcomes(r) == {"ok", "failure"} \cup (IF r.aborted THEN {"abort"} ELSE {})

\* A faulty variant of MayWrite: no write follows the await, not even the
\* one of the finally block.
MayWriteNever(r) == FALSE

\* A faulty variant of MayWrite: the flag of the effect run is not consulted.
MayWriteAlways(r) == TRUE

\* if (mounted): the guard before every write that follows the await.
MayWrite(r) == r.mounted

\* fetchStats after its await: try / catch / finally.
fetchStatsSettles(r, outcome) ==
  /\ component = "SiteBoard"
  /\ r \in requests
  /\ r.endpoint = "stats"
  /\ outcome \in Outcomes(r)
  /\ requests' = requests \ {r}
  /\ IF ~MayWrite(r) THEN UNCHANGED <<stats, statsError, statsLoading>>
     ELSE /\ stats' = (CASE outcome = "ok" -> Response(r.endpoint, r.qs)
                         [] outcome = "failure" -> NoStats
                         [] OTHER -> stats)
          /\ statsError' = (IF outcome = "failure" THEN ApiError ELSE statsError)
          /\ statsLoading' = FALSE
  /\ UNCHANGED <<filters, energieData, energieLoading, energieError, changes>>
  /\ TablesUnchanged

\* fetchEnergieBreakdown after its await: try / catch / finally.
fetchEnergieBreakdownSettles(r, outcome) ==
  /\ component = "SiteBoard"
  /\ r \in requests
  /\ r.endpoint = "energie_breakdown"
  /\ outcome \in Outcomes(r)
  /\ requests' = requests \ {r}
  /\ IF ~MayWrite(r) THEN UNCHANGED <<energieData, energieError, energieLoading>>
     ELSE /\ energieData' = (CASE outcome = "ok" -> Response(r.endpoint, r.qs)
                               [] outcome = "failure" -> NoBuckets
                               [] OTHER -> energieData)
          /\ energieError' = (IF outcome = "failure" THEN ApiError ELSE energieError)
          /\ energieLoading' = FALSE
  /\ UNCHANGED <<filters, stats, statsLoading, statsError, changes>>
  /\ TablesUnchanged

SiteBoardNext ==
  \/ \E v \in TriStates : setIsUnderMaintenance(v)
  \/ \E next \in EnergieSelections : setEnergie(next)
  \/ resetFilters
  \/ \E r \in requests, outcome \in {"ok", "failure", "abort"} :
       fetchStatsSettles(r, outcome)
  \/ \E r \in requests, outcome \in {"ok", "failure", "abort"} :
       fetchEnergieBreakdownSettles(r, outcome)

(* ----------------------------------------------------------------------- *)
(* SiteBoardPage: the detail modal                                         *)
(* ----------------------------------------------------------------------- *)

\* Two of the five KPI kinds, and their endpoints.
KpiKinds == {"not_under_maintenance", "under_maintenance_with_solar"}
modalEndpointByKind(kind) ==
  IF kind = "not_under_maintenance"
  THEN "/api/v1/sites/not_under_maintenance"
  ELSE "/api/v1/sites/under_maintenance_with_solar"

\* The categories of the bars of the energie chart.
EnergieCategories == {"Solar", "Grid"}

\* The filters the user has chosen when the modal is observed.
ModalFilterStates ==
  { NeutralFilters,
    [is_under_maintenance |-> "false", has_solar |-> "true",
     energie |-> <<"Grid">>],
    [is_under_maintenance |-> "all", has_solar |-> "false", energie |-> <<>>] }

NoKind == "(null)"
NoCustom == [isNull |-> TRUE, endpointWithQuery |-> <<>>, title |-> ""]
NoModalRows == [shape |-> "null", id |-> 0, url |-> <<>>]
DetailError == "Erreur détail (500)"

\* A pending detail request, and the JSON body a 2xx answer to it carries:
\* an array of rows, or something that is not an array.
ModalFetch(id, url) == [id |-> id, url |-> url]
ModalJson(r, shape) == [shape |-> shape, id |-> r.id, url |-> r.url]

\* How a detail request can end: 2xx with an array, 2xx with another JSON
\* value, or a failure (non-2xx status, rejected fetch, invalid JSON).
ModalOutcomes == {"array", "object", "failure"}

\* The board with its KPI and chart fetches answered for filters f.
SettledBoardInit ==
  /\ filters \in ModalFilterStates
  /\ stats = Response("stats", buildQueryString(filters))
  /\ statsLoading = FALSE
  /\ statsError = NoError
  /\ energieData = Response("energie_breakdown", buildQueryString(filters))
  /\ energieLoading = FALSE
  /\ energieError = NoError
  /\ requests = {}
  /\ changes = 0

SiteBoardModalInit ==
  /\ modalKind = NoKind
  /\ modalCustom = NoCustom
  /\ modalRows = NoModalRows
  /\ modalLoading = FALSE
  /\ modalError = NoError
  /\ modalRequests = {}
  /\ modalOpens = 0

ModalFrame ==
  UNCHANGED <<component, data, rows, isLoading, error, search, sortKey,
              sortDirection, currentPage, pageSizeState, working, pageIndex,
              pageSize, processedRows, resetPending, boardVars, hookVars,
              detailVars>>

\* The first lines of openModal and openModalCustom, up to the fetch.
StartModal(kind, custom, url) ==
  /\ component = "SiteBoardModal"
  /\ modalKind = NoKind
  /\ modalOpens < MaxOpens
  /\ modalKind' = kind
  /\ modalCustom' = custom
  /\ modalLoading' = TRUE
  /\ modalRows' = NoModalRows
  /\ modalError' = NoError
  /\ modalRequests' = modalRequests \cup {ModalFetch(modalOpens + 1, url)}
  /\ modalOpens' = modalOpens + 1
  /\ ModalFrame

\* openModal(kind): the KPI endpoint with buildQueryString(filters).
openModal(kind) ==
  /\ StartModal(kind, NoCustom,
                <<modalEndpointByKind(kind)>> \o buildQueryString(filters))
  /\ last' = [op |-> "openModal", page |-> 0, text |-> <<kind>>,
              num |-> modalOpens + 1]

\* openModalCustom(endpointWithQuery, title)
openModalCustom(endpointWithQuery, title) ==
  /\ StartModal("custom",
                [isNull |-> FALSE, endpointWithQuery |-> endpointWithQuery,
                 title |-> title],
                endpointWithQuery)
  /\ last' = [op |-> "openModalCustom", page |-> 0, text |-> <<title>>,
              num |-> modalOpens + 1]

\* A faulty variant of ForcedFilters: is_under_maintenance is not forced.
ForcedFiltersKeepingMaintenance(f, energieValue) ==
  [f EXCEPT !.energie = <<energieValue>>]

\* { ...filters, is_under_maintenance: "true", energie: [energieValue] }
ForcedFilters(f, energieValue) ==
  [f EXCEPT !.is_under_maintenance = "true", !.energie = <<energieValue>>]

\* `/api/v1/sites${qs}${qs ? "&" : "?"}limit=5000`
SitesEndpoint(qs) ==
  <<"/api/v1/sites">> \o qs
    \o <<(IF qs # <<>> THEN "&" ELSE "?"), "limit", "=", "5000">>

\* handleSelectEnergie(energieValue): a click on a bar of the energie chart.
handleSelectEnergie(energieValue) ==
  openModalCustom(SitesEndpoint(buildQueryString(ForcedFilters(filters, energieValue))),
                  energieValue)

\* closeModal(): kind, custom, rows and error go back to null.
closeModal ==
  /\ component = "SiteBoardModal"
  /\ modalKind # NoKind
  /\ modalKind' = NoKind
  /\ modalCustom' = NoCustom
  /\ modalRows' = NoModalRows
  /\ modalError' = NoError
  /\ last' = [op |-> "closeModal", page |-> 0, text |-> <<>>, num |-> 0]
  /\ UNCHANGED <<modalLoading, modalRequests, modalOpens>>
  /\ ModalFrame

\* openModal / openModalCustom after the awaits: setModalRows(json), or the
\* catch block's setModalError; finally setModalLoading(false).  The body is
\* stored as it is parsed; nothing consults the modal that is open now.
modalFetchSettles(r, outcome) ==
  /\ component = "SiteBoardModal"
  /\ r \in modalRequests
  /\ modalRequests' = modalRequests \ {r}
  /\ IF outcome = "failure"
     THEN /\ modalError' = DetailError
          /\ modalRows' = modalRows
     ELSE /\ modalRows' = ModalJson(r, outcome)
          /\ modalError' = modalError
  /\ modalLoading' = FALSE
  /\ last' = [op |-> "modalSettle", page |-> 0, text |-> <<outcome>>,
              num |-> r.id]
  /\ UNCHANGED <<modalKind, modalCustom, modalOpens>>
  /\ ModalFrame

SiteBoardModalNext ==
  \/ \E kind \in KpiKinds : openModal(kind)
  \/ \E energieValue \in EnergieCategories : handleSelectEnergie(energieValue)
  \/ closeModal
  \/ \E r \in modalRequests, outcome \in ModalOutcomes :
       modalFetchSettles(r, outcome)

(* ----------------------------------------------------------------------- *)
(* RecordDetailModal                                                       *)
(* ----------------------------------------------------------------------- *)

\* A row is known to the modal by Object.keys(row); null is no row.
RowOf(keys) == [isNull |-> FALSE, keys |-> keys]
NoRow == [isNull |-> TRUE, keys |-> <<>>]

\* The rows a page can hand over: no field, the fields c, a, b, fields that
\* differ by case and by a number (b, a10, B, a2), and fields whose first has
\* the empty name.
DetailRows ==
  { RowOf(<<>>),
    RowOf(<< <<"c">>, <<"a">>, <<"b">> >>),
    RowOf(<< <<"b">>, <<"a", "1", "0">>, <<"B">>, <<"a", "2">> >>),
    RowOf(<< <<>> >>),
    RowOf(<< <<>>, <<"a">> >>) }

\* The column lists of a page, keys pairwise distinct; d is on no row.
DetailColumnLists ==
  { <<>>, << <<"b">>, <<"a">> >>, << <<"d">>, <<"c">> >>, << <<"d">> >> }

IsMember(x, seq) == \E i \in 1..Len(seq) : seq[i] = x

\* const rowKeys = Object.keys(row)
rowKeys(row) == row.keys

\* A faulty variant of primaryKeys: the row's order instead of the columns'.
primaryKeysInRowOrder(row, cols) ==
  SelectSeq(rowKeys(row), LAMBDA key : IsMember(key, cols))

\* safeColumns.map((c) => c.key).filter((key) => rowKeys.includes(key))
primaryKeys(row, cols) ==
  SelectSeq(cols, LAMBDA key : IsMember(key, rowKeys(row)))

\* The leading run of decimal digits of a string, and what follows it.
RECURSIVE DigitRunLength(_)
DigitRunLength(s) ==
  IF s # <<>> /\ IsDigit(Head(s)) THEN 1 + DigitRunLength(Tail(s)) ELSE 0

Sign(n) == IF n < 0 THEN 0 - 1 ELSE IF n > 0 THEN 1 ELSE 0

\* a.localeCompare(b, "fr", { numeric: true, sensitivity: "base" }) on names
\* of unaccented letters and digits: the empty string first, digits before
\* letters, a run of digits by its value, letters without regard to case.
RECURSIVE localeCompare(_, _)
localeCompare(a, b) ==
  IF a = <<>> /\ b = <<>> THEN 0
  ELSE IF a = <<>> THEN 0 - 1
  ELSE IF b = <<>> THEN 1
  ELSE IF IsDigit(Head(a)) /\ IsDigit(Head(b))
       THEN LET na == DigitRunLength(a)
                nb == DigitRunLength(b)
                va == DigitsValue(SubSeq(a, 1, na), 0)
                vb == DigitsValue(SubSeq(b, 1, nb), 0)
            IN IF va # vb THEN Sign(va - vb)
               ELSE localeCompare(SubSeq(a, na + 1, Len(a)),
                                  SubSeq(b, nb + 1, Len(b)))
  ELSE IF IsDigit(Head(a)) THEN 0 - 1
  ELSE IF IsDigit(Head(b)) THEN 1
  ELSE LET ca == CodeUnit(LowerChar(Head(a)))
           cb == CodeUnit(LowerChar(Head(b)))
       IN IF ca # cb THEN Sign(ca - cb)
          ELSE localeCompare(Tail(a), Tail(b))

\* Array.prototype.sort with localeCompare, a consistent comparator: the
\* stable sort.  InsertKey puts x behind the elements that do not follow it.
RECURSIVE InsertKey(_, _)
InsertKey(x, sorted) ==
  IF sorted = <<>> THEN <<x>>
  ELSE IF localeCompare(sorted[Len(sorted)], x) <= 0 THEN Append(sorted, x)
  ELSE Append(InsertKey(x, SubSeq(sorted, 1, Len(sorted) - 1)),
              sorted[Len(sorted)])

RECURSIVE SortKeys(_)
SortKeys(keys) ==
  IF keys = <<>> THEN <<>>
  ELSE InsertKey(keys[Len(keys)], SortKeys(SubSeq(keys, 1, Len(keys) - 1)))

\* rowKeys.filter((key) => !primaryKeys.includes(key)).sort(localeCompare)
remainingKeys(row, cols) ==
  SortKeys(SelectSeq(rowKeys(row),
                     LAMBDA key : ~IsMember(key, primaryKeys(row, cols))))

\* [...primaryKeys, ...remainingKeys]
orderedKeys(row, cols) == primaryKeys(row, cols) \o remainingKeys(row, cols)

\* primaryKeys[0] ?? orderedKeys[0] ?? null
NoSummaryKey == [isNull |-> TRUE, key |-> <<>>]
summaryKey(row, cols) ==
  IF primaryKeys(row, cols) # <<>>
  THEN [isNull |-> FALSE, key |-> primaryKeys(row, cols)[1]]
  ELSE IF orderedKeys(row, cols) # <<>>
       THEN [isNull |-> FALSE, key |-> orderedKeys(row, cols)[1]]
       ELSE NoSummaryKey

\* if (!isOpen || !row) return null
ModalRendered == isDetailOpen /\ ~detailRow.isNull

\* {summaryKey && (<span className="rdm-summary-pill">...)}: the pill is
\* rendered when summaryKey is truthy, i.e. neither null nor "".
SummaryPillShown ==
  /\ ModalRendered
  /\ ~summaryKey(detailRow, detailColumns).isNull
  /\ summaryKey(detailRow, detailColumns).key # <<>>

RecordDetailModalInit ==
  /\ detailRow = NoRow
  /\ isDetailOpen = FALSE
  /\ detailColumns \in
       (IF component = "RecordDetailModal" THEN DetailColumnLists ELSE {<<>>})

DetailFrame ==
  UNCHANGED <<component, data, rows, isLoading, error, search, sortKey,
              sortDirection, currentPage, pageSizeState, working, pageIndex,
              pageSize, processedRows, resetPending, boardVars, hookVars,
              detailColumns, modalVars>>

\* onRowDetail={(row) => { setDetailRow(row); setIsDetailOpen(true); }}
onRowDetail(row) ==
  /\ component = "RecordDetailModal"
  /\ ~ModalRendered
  /\ detailRow' = row
  /\ isDetailOpen' = TRUE
  /\ last' = [op |-> "open", page |-> 0, text |-> <<>>, num |-> Len(row.keys)]
  /\ DetailFrame

\* onClose={() => { setIsDetailOpen(false); setDetailRow(null); }}
onClose ==
  /\ component = "RecordDetailModal"
  /\ ModalRendered
  /\ detailRow' = NoRow
  /\ isDetailOpen' = FALSE
  /\ last' = [op |-> "close", page |-> 0, text |-> <<>>, num |-> 0]
  /\ DetailFrame

RecordDetailModalNext ==
  \/ \E row \in DetailRows : onRowDetail(row)
  \/ onClose

(* ----------------------------------------------------------------------- *)
(* Specification                                                           *)
(* ----------------------------------------------------------------------- *)

\* The hooks both tables declare under the same names.  DataTable starts
\* without a sort key; ModalTable starts on initialSortKey ?? columns[0]?.key
\* ?? null, the first column of a static column list or null when the owner
\* builds the columns from rows it has not received yet.
TableHooksInit ==
  /\ search = <<>>
  /\ sortDirection = "asc"
  /\ sortKey \in (IF component = "ModalTable" THEN {NoKey, "k"} ELSE {NoKey})

Init ==
  /\ component \in {"DataTable", "ModalTable", "SiteBoard", "useApiTable",
                    "RecordDetailModal", "SiteBoardModal"}
  /\ TableHooksInit
  /\ DataTableInit
  /\ ModalTableInit
  /\ IF component = "SiteBoardModal" THEN SettledBoardInit ELSE SiteBoardInit
  /\ SiteBoardModalInit
  /\ useApiTableInit
  /\ RecordDetailModalInit
  /\ last = [op |-> "mount", page |-> 0, text |-> <<>>, num |-> 0]

Next ==
  \/ DataTableNext
  \/ ModalTableNext
  \/ SiteBoardNext
  \/ useApiTableNext
  \/ RecordDetailModalNext
  \/ SiteBoardModalNext

vars == <<tableVars, boardVars, hookVars, detailVars, modalVars>>

Spec == Init /\ [][Next]_vars

\* Some pending request of the observed container ends.
RequestSettles ==
  \/ \E r \in fetches, outcome \in FetchOutcomes, json \in Arrays :
       fetchDataSettles(r, outcome, json)
  \/ \E r \in requests, outcome \in {"ok", "failure", "abort"} :
       fetchStatsSettles(r, outcome) \/ fetchEnergieBreakdownSettles(r, outcome)
  \/ \E r \in modalRequests, outcome \in ModalOutcomes :
       modalFetchSettles(r, outcome)

\* Every issued request eventually completes, fails or is aborted: the
\* browser settles the promise of every fetch.
\* The containers that own a fetch.
LiveInit ==
  Init /\ component \in {"useApiTable", "SiteBoard", "SiteBoardModal"}

LiveNext ==
  \/ SiteBoardNext /\ changes' <= MaxLiveChanges
  \/ useApiTableNext
  \/ SiteBoardModalNext

FairSpec == LiveInit /\ [][LiveNext]_vars /\ WF_vars(RequestSettles)

(* ----------------------------------------------------------------------- *)
(* Properties: pagination                                                  *)
(* ----------------------------------------------------------------------- *)

\* ceil(count / size): the least n with n * size >= count.
Ceiling(count, size) ==
  CHOOSE n \in 0..count : n * size >= count /\ \A m \in 0..(n - 1) : m * size < count

\* The lengths of pageItems summed over the pages 1..upTo.
RECURSIVE PageItemsTotal(_, _, _, _)
PageItemsTotal(d, w, size, upTo) ==
  IF upTo = 0 THEN 0
  ELSE Len(processedData(d, w, upTo, size).pageItems)
       + PageItemsTotal(d, w, size, upTo - 1)

\* C1: in every DataTable state (every row collection, search term, sort state
\* and page size of the model) totalPages = max(1, ceil(totalFiltered / P)),
\* each page before the last holds exactly P rows, the last page holds the
\* remainder, the page lengths sum to totalFiltered, and totalFiltered is at
\* most the number of input rows.
C1_PaginationArithmetic ==
  component = "DataTable" =>
    LET P == pageSizeState
        n == totalItems
        T == totalPages
        PageLen(p) == Len(processedData(data, working, p, P).pageItems)
    IN /\ P > 0
       /\ T = (IF Ceiling(n, P) > 1 THEN Ceiling(n, P) ELSE 1)
       /\ \A p \in 1..(T - 1) : PageLen(p) = P
       /\ PageLen(T) = n - (T - 1) * P
       /\ PageItemsTotal(data, working, P, T) = n
       /\ n <= (IF data.isNull THEN 0 ELSE Len(data.rows))

\* C1 witness: five rows at page size 2 give three pages of 2, 2 and 1 rows,
\* and the user is on the last one.
C1_ThreePagesLastShort ==
  /\ component = "DataTable"
  /\ totalItems = 5
  /\ pageSizeState = 2
  /\ totalPages = 3
  /\ currentPage = 3
  /\ Len(pageData) = 1

\* The rows of page q (counted from 1) of the list w at the given page size.
RowsOfPage(w, q, size) ==
  LET first == (q - 1) * size
      count == (IF q * size < Len(w) THEN q * size ELSE Len(w)) - first
  IN [i \in 1..count |-> w[first + i]]

Clamp(x, lo, hi) == IF x < lo THEN lo ELSE IF x > hi THEN hi ELSE x

\* C2: in DataTable, for the stored page index and for every requested page
\* from below the first to beyond the last, the rows served are those of the
\* page clamped into [1, totalPages]; in ModalTable the same holds for the
\* stored index (never negative, possibly stale until the reset effect runs)
\* and every index up to beyond the last page, clamped into [0, pageCount - 1];
\* whenever a row matches, the served page is not empty.
C2_ServedPageIsClamped ==
  /\ (component = "DataTable" /\ hasData(data)) =>
       \A p \in {currentPage} \cup ((1 - PageSlack)..(totalPages + PageSlack)) :
         LET served == processedData(data, working, p, pageSizeState).pageItems
         IN /\ served = RowsOfPage(working, Clamp(p, 1, totalPages), pageSizeState)
            /\ Len(working) > 0 => Len(served) > 0
  /\ component = "ModalTable" =>
       /\ pageIndex >= 0
       /\ \A i \in {pageIndex} \cup (0..(pageCount - 1 + PageSlack)) :
            LET served == ModalPage(processedRows, i, pageSize).pagedRows
                size == IF pageSize > 0 THEN pageSize ELSE Len(processedRows)
            IN /\ served = RowsOfPage(processedRows, Clamp(i, 0, pageCount - 1) + 1, size)
               /\ Len(processedRows) > 0 => Len(served) > 0

\* C2 witness: a stored page beyond the last page (the collection shrank
\* under the user) and a non-empty page served all the same.
C2_StalePageServed ==
  /\ component = "DataTable"
  /\ currentPage > totalPages
  /\ Len(pageData) > 0
  /\ pageData = RowsOfPage(working, totalPages, pageSizeState)

(* ----------------------------------------------------------------------- *)
(* Properties: page resets                                                 *)
(* ----------------------------------------------------------------------- *)

\* C3: in DataTable every step that changes the search text or the sort state
\* (a header click always changes it) stores page 1; and when the new search
\* text leaves at most pageSize rows, the view is one page holding them all.
C3_SearchAndSortResetPage ==
  [][component = "DataTable" =>
       /\ (search' # search \/ sortKey' # sortKey \/ sortDirection' # sortDirection)
            => currentPage' = 1
       /\ (search' # search /\ totalItems' <= pageSizeState')
            => (totalPages' = 1 /\ Len(pageData') = totalItems')]_vars

\* C3 witness: the user was on page 3 and typed a term that matches one row.
C3_SearchFromPageThree ==
  /\ component = "DataTable"
  /\ last.op = "search"
  /\ last.page = 3
  /\ currentPage = 1
  /\ totalItems = 1
  /\ totalPages = 1
  /\ Len(pageData) = 1

\* C4: in DataTable every step that replaces the row collection stores page 1.
C4_DataReplacementResetsPage ==
  [][(component = "DataTable" /\ data' # data) => currentPage' = 1]_vars

\* C4, the state after the step that breaks it: new rows were delivered while
\* the user was on page 3, and the stored page is still 3.
C4_PageKeptAcrossReload ==
  /\ component = "DataTable"
  /\ last.op = "data"
  /\ last.page = 3
  /\ hasData(data)
  /\ currentPage = 3

\* C5: a step of handlePageSizeChange(value) whose value parses to a non-zero
\* number other than the current page size stores that number and page 1;
\* with any other value it leaves page size and page index as they were; and
\* no other step changes the page size.
C5_PageSizeChange ==
  [][component = "DataTable" =>
       /\ pageSizeState' # pageSizeState => last'.op = "pageSize"
       /\ last'.op = "pageSize" =>
            LET chosen == StringToNumber(last'.text)
            IN IF ~chosen.nan /\ chosen.n # 0 /\ chosen.n # pageSizeState
               THEN pageSizeState' = chosen.n /\ currentPage' = 1
               ELSE UNCHANGED <<pageSizeState, currentPage>>]_vars

\* C5 witness: on page 3 at page size 2 the user chose page size 4.
C5_LargerPageSizeFromPageThree ==
  /\ component = "DataTable"
  /\ last.op = "pageSize"
  /\ last.page = 3
  /\ last.text = <<"4">>
  /\ pageSizeState = 4
  /\ currentPage = 1

(* ----------------------------------------------------------------------- *)
(* Properties: sorting and filtering                                       *)
(* ----------------------------------------------------------------------- *)

\* C6: in both tables a step changes the sort state only if it is a header
\* click; a click on the current sort key keeps the key and flips the
\* direction, a click on another column makes it the key with direction
\* "asc" whatever the direction was.
C6_SortStateOnlyByHeaderClick ==
  [][/\ (sortKey' # sortKey \/ sortDirection' # sortDirection) => last'.op = "sort"
     /\ last'.op = "sort" =>
          IF sortKey = last'.text[1]
          THEN /\ sortKey' = sortKey
               /\ sortDirection' # sortDirection
               /\ sortDirection' \in {"asc", "desc"}
          ELSE /\ sortKey' = last'.text[1]
               /\ sortDirection' = "asc"]_vars

\* C6 witness: in ModalTable, after other clicks, a second click on the
\* column "name" left the table sorted by it in descending direction.
C6_SecondClickDescending ==
  /\ component = "ModalTable"
  /\ last.op = "sort"
  /\ last.text = <<"name">>
  /\ sortKey = "name"
  /\ sortDirection = "desc"
  /\ Len(processedRows) > 1

\* The place of a row in a list of distinct rows.
IndexOf(list, row) == CHOOSE i \in 1..Len(list) : list[i] = row

\* Rows of equal normalized sort value keep the relative order of the input.
KeepsInputOrder(sorted, input, table, key) ==
  \A i, j \in 1..Len(sorted) :
    (/\ i < j
     /\ SortValues(<<sorted[i]>>, table, key) = SortValues(<<sorted[j]>>, table, key))
      => IndexOf(input, sorted[i]) < IndexOf(input, sorted[j])

\* C7: in both tables, under any sort key and direction, the rows of the
\* sorted view whose normalized sort values are equal stand in the relative
\* order of the input collection.
C7_SortIsStable ==
  /\ (component = "DataTable" /\ hasData(data) /\ sortKey # NoKey)
       => KeepsInputOrder(working, data.rows, "DataTable", sortKey)
  /\ (component = "ModalTable" /\ sortKey # NoKey)
       => KeepsInputOrder(processedRows, safeRows(rows), "ModalTable", sortKey)

\* C7, a state where it fails: the column holds strings and a number, and the
\* two rows of equal value have changed places.
C7_TiesSwapped ==
  /\ component = "DataTable"
  /\ data = ArrayOf(RowsMixed)
  /\ sortKey = "k"
  /\ working = <<RowsMixed[3], RowsMixed[2], RowsMixed[1]>>

\* needle occurs in hay as a run of consecutive characters.
IsSubstring(needle, hay) ==
  \E offset \in 0..Len(hay) :
    /\ offset + Len(needle) <= Len(hay)
    /\ \A k \in 1..Len(needle) : hay[offset + k] = needle[k]

\* The filter as stated: the trimmed lower-cased term is empty, or occurs in
\* the lower-cased string form of a string, number or boolean field.
StatedMatch(row, text) ==
  \/ toLowerCase(trim(text)) = <<>>
  \/ \E f \in DOMAIN row :
       /\ row[f].t \in {"string", "number", "boolean"}
       /\ IsSubstring(toLowerCase(trim(text)), toLowerCase(String(row[f])))

\* shown holds exactly the rows of input (distinct rows) that match.
HoldsTheMatches(shown, input, text) ==
  /\ Range(shown) = {input[i] : i \in {j \in 1..Len(input) : StatedMatch(input[j], text)}}
  /\ Len(shown) = Cardinality(Range(shown))

\* C8: in both tables the filtered set holds exactly the rows for which the
\* trimmed lower-cased search term is empty or a substring of the lower-cased
\* string form of a string, number or boolean field, visible column or not;
\* null and object fields never match; a whitespace-only term keeps all rows.
C8_FilterIsGlobalSubstring ==
  /\ (component = "DataTable" /\ hasData(data))
       => /\ HoldsTheMatches(working, data.rows, search)
          /\ trim(search) = <<>> => Len(working) = Len(data.rows)
  /\ component = "ModalTable"
       => /\ HoldsTheMatches(processedRows, safeRows(rows), search)
          /\ trim(search) = <<>> => Len(processedRows) = Len(safeRows(rows))

\* C8 witness: "tru" is found only in the boolean field flag, which is not a
\* column, of two of the five rows; the object and null fields of the others
\* do not match.
C8_HiddenBooleanFieldMatches ==
  /\ component = "DataTable"
  /\ data = ArrayOf(RowsPaged)
  /\ search = <<"t", "r", "u">>
  /\ Range(working) = {RowsPaged[1], RowsPaged[5]}

(* ----------------------------------------------------------------------- *)
(* Properties: no data                                                     *)
(* ----------------------------------------------------------------------- *)

EmptyView == [pageItems |-> <<>>, totalFiltered |-> 0, totalPages |-> 1]

\* What `working` can be without rows, over every search term and sort state.
NoDataWorkings ==
  UNION {DataTableWorking(d, text, key, dir) :
           d \in {Null, ArrayOf(<<>>)}, text \in SearchTerms,
           key \in Columns \cup {NoKey}, dir \in {"asc", "desc"}}

\* Without rows the view is the empty single page for every search term, sort
\* state, page index and page size.
NoDataView ==
  (component = "DataTable" /\ ~hasData(data)) =>
    /\ [pageItems |-> pageData, totalFiltered |-> totalItems,
        totalPages |-> totalPages] = EmptyView
    /\ working \in NoDataWorkings
    /\ \A w \in NoDataWorkings :
         \A p \in (1 - PageSlack)..(currentPage + PageSlack) :
           \A size \in {NumberOrZero(v) : v \in PageSizeOptions} :
             processedData(data, w, p, size) = EmptyView

\* Without rows a page navigation request leaves the stored page index alone.
NoDataNavigation ==
  (component = "DataTable" /\ ~hasData(data) /\ last'.op = "page")
    => currentPage' = currentPage

\* C9: when the row collection is null or empty the view is exactly
\* {pageItems: [], totalFiltered: 0, totalPages: 1} for every search term,
\* sort state, page index and page size, and a page navigation request
\* leaves the page index unchanged.
C9_NoData == []NoDataView /\ [][NoDataNavigation]_vars

\* C9 witness: the rows went away while the user was on page 3; a navigation
\* request for page 1 was made and the stored page is still 3.
C9_NavigationWithoutRows ==
  /\ component = "DataTable"
  /\ ~hasData(data)
  /\ last.op = "page"
  /\ last.num = 1
  /\ last.page = 3
  /\ currentPage = 3
  /\ totalPages = 1

(* ----------------------------------------------------------------------- *)
(* Properties: SiteBoard requests                                          *)
(* ----------------------------------------------------------------------- *)

\* A request issued by an effect run that a later filter change cleaned up.
Superseded(r) == r.id < changes

\* Every superseded request in flight has its signal aborted.
SupersededAreAborted == \A r \in requests : Superseded(r) => r.aborted

\* The end of a superseded request writes none of the six states.
SupersededNeverWrite ==
  \A r \in requests :
    (Superseded(r) /\ r \notin requests')
      => UNCHANGED <<stats, statsLoading, statsError,
                     energieData, energieLoading, energieError>>

\* With nothing in flight, what is displayed is what the requests of the
\* current filters returned: their response, or nothing and an error.
SettledOnCurrentFilters ==
  (component = "SiteBoard" /\ requests = {}) =>
    /\ ~statsLoading /\ ~energieLoading
    /\ IF statsError = NoError
       THEN stats = Response("stats", buildQueryString(filters))
       ELSE stats = NoStats
    /\ IF energieError = NoError
       THEN energieData = Response("energie_breakdown", buildQueryString(filters))
       ELSE energieData = NoBuckets

\* C10: on the SiteBoard, for any sequence of filter changes and any arrival
\* order, each request issued under superseded filters is aborted and its
\* end (success, failure or abort) writes no stats, chart data, error or
\* loading state; once every response has arrived the stats and chart data
\* are those returned for the current filters.
C10_SupersededRequestsDiscarded ==
  /\ []SupersededAreAborted
  /\ [][SupersededNeverWrite]_vars
  /\ []SettledOnCurrentFilters

\* C10 witness: after two filter changes every response has arrived, and the
\* stats and chart data shown are those of the final filters.
C10_SettledAfterTwoChanges ==
  /\ component = "SiteBoard"
  /\ changes = 2
  /\ requests = {}
  /\ filters = [is_under_maintenance |-> "true", has_solar |-> "all",
                energie |-> <<"Solar", "Grid">>]
  /\ stats = Response("stats", buildQueryString(filters))
  /\ energieData = Response("energie_breakdown", buildQueryString(filters))
  /\ buildQueryString(filters) =
       <<"?", "is_under_maintenance", "=", "true", "&",
         "energie", "=", "Solar", "%2C", "Grid">>

(* ----------------------------------------------------------------------- *)
(* C11: last request wins in useApiTable                                   *)
(* ----------------------------------------------------------------------- *)

\* C11: once every fetchData call of the hook has ended, in whatever order,
\* the exposed data and error are those of the most recently issued call.
C11_LastRequestWins ==
  (component = "useApiTable" /\ fetches = {} /\ settled.ended)
    => (data = settled.data /\ error = settled.error)

\* Two calls overlapped and the older one ended last.
C11_OlderResponseArrivesLast ==
  /\ component = "useApiTable"
  /\ fetches = {}
  /\ settled.ended
  /\ last.op = "settle"
  /\ last.num < issued

(* ----------------------------------------------------------------------- *)
(* C12: nothing is written after the owning view unmounted                 *)
(* ----------------------------------------------------------------------- *)

\* The state a view exposes from its fetches.
ExposedUnchanged ==
  UNCHANGED <<data, isLoading, error, stats, statsLoading, statsError,
              energieData, energieLoading, energieError>>

\* C12: a response or failure that arrives when the owning view is no longer
\* mounted (the useApiTable page was left, or the SiteBoard effect that issued
\* the request was cleaned up) changes none of the exposed state.
C12_NoUpdateAfterUnmount ==
  [][((component = "useApiTable" /\ ~mounted)
        \/ (component = "SiteBoard"
              /\ \E r \in requests : r \notin requests' /\ ~r.mounted))
       => ExposedUnchanged]_vars

\* A response reached the hook after its page was left, and the hook stored
\* the rows and cleared its loading flag.
C12_WrittenAfterUnmount ==
  /\ component = "useApiTable"
  /\ ~mounted
  /\ last.op = "settle"
  /\ hasData(data)
  /\ ~isLoading

(* ----------------------------------------------------------------------- *)
(* C13: no automatic retry                                                 *)
(* ----------------------------------------------------------------------- *)

RequestIds(reqs) == {r.id : r \in reqs}

\* useApiTable: as many calls as triggering events (the mount, each reload).
IssuedEqualsEvents ==
  component = "useApiTable"
    => (issued = events /\ RequestIds(fetches) \subseteq 1..issued)

\* SiteBoard: every request belongs to the mount or to a filter change.
RequestsOfFilterChanges ==
  component = "SiteBoard" => RequestIds(requests) \subseteq 0..changes

\* useApiTable: a call is issued only by a triggering event; a call that
\* ends, ends for good; and after a failure with nothing pending the hook
\* keeps its error state until the next triggering event.
NoRetryInHook ==
  component = "useApiTable" =>
    /\ issued' # issued => (issued' = issued + 1 /\ events' = events + 1)
    /\ events' = events => fetches' \subseteq fetches
    /\ (last'.op = "settle" /\ last' # last)
         => Cardinality(fetches') = Cardinality(fetches) - 1
    /\ (last'.op = "settle" /\ last' # last /\ last'.text # <<"array">>)
         => (error' # NoError /\ data' = Null /\ ~isLoading')
    /\ (fetches = {} /\ error # NoError /\ events' = events)
         => UNCHANGED <<data, error, isLoading, fetches, issued>>

\* SiteBoard: requests are issued only by a filter change, and a recorded
\* failure stays until the next filter change.
NoRetryOnBoard ==
  component = "SiteBoard" =>
    /\ RequestIds(requests') \ RequestIds(requests) # {}
         => changes' = changes + 1
    /\ changes' = changes => requests' \subseteq requests
    /\ (statsError # NoError /\ changes' = changes) => statsError' = statsError
    /\ (energieError # NoError /\ changes' = changes)
         => energieError' = energieError

LoneCallEnds ==
  /\ component = "useApiTable"
  /\ \E r \in fetches : fetches = {r} /\ ~r.shared
  /\ fetches' = {}

\* C14: a fetchData call that runs alone ends either with data = the array
\* of the response, error = null, isLoading = false (2xx with an array body)
\* or with data = null, error = a non-empty message, isLoading = false
\* (non-2xx, invalid JSON, non-array body, transport failure).
C14_TwoOutcomes ==
  [][LoneCallEnds =>
       /\ last'.op = "settle"
       /\ last'.text[1] \in FetchOutcomes
       /\ ~isLoading'
       /\ settled'.ended
       /\ IF last'.text = <<"array">>
          THEN /\ data' \in Arrays
               /\ data' = settled'.data
               /\ error' = NoError
          ELSE /\ data' = Null
               /\ error' \notin {NoError, ""}]_vars

\* The mount fetch ended alone with a 2xx response carrying rows.
C14_LoneSuccess ==
  /\ component = "useApiTable"
  /\ issued = 1
  /\ fetches = {}
  /\ last.op = "settle"
  /\ last.text = <<"array">>
  /\ data = ArrayOf(RowsPaged)
  /\ error = NoError
  /\ ~isLoading

(* ----------------------------------------------------------------------- *)
(* C15: the two sections of the detail view                                *)
(* ----------------------------------------------------------------------- *)

NoDuplicates(seq) == Cardinality(Range(seq)) = Len(seq)

\* C15: the primary section holds exactly the column keys present on the
\* row, in the order of the column list; the remaining section holds exactly
\* the other keys of the row, sorted; every key of the row appears exactly
\* once over the two sections and no other key appears.  Columns [b, a] and
\* row {c, a, b} give primary [b, a] and remaining [c].
C15_DetailSections ==
  ModalRendered =>
    LET primary == primaryKeys(detailRow, detailColumns)
        remaining == remainingKeys(detailRow, detailColumns)
        keys == Range(rowKeys(detailRow))
    IN /\ Range(primary) = Range(detailColumns) \cap keys
       /\ NoDuplicates(primary)
       /\ \A i, j \in 1..Len(primary) :
            i < j => IndexOf(detailColumns, primary[i])
                       < IndexOf(detailColumns, primary[j])
       /\ Range(remaining) = keys \ Range(detailColumns)
       /\ NoDuplicates(remaining)
       /\ \A i, j \in 1..Len(remaining) :
            i < j => localeCompare(remaining[i], remaining[j]) <= 0
       /\ NoDuplicates(orderedKeys(detailRow, detailColumns))
       /\ Range(orderedKeys(detailRow, detailColumns)) = keys
       /\ (/\ detailColumns = << <<"b">>, <<"a">> >>
           /\ rowKeys(detailRow) = << <<"c">>, <<"a">>, <<"b">> >>)
            => (primary = << <<"b">>, <<"a">> >> /\ remaining = << <<"c">> >>)

\* The modal shows the row {c, a, b} under the columns [b, a].
C15_ColumnsBeforeOthers ==
  /\ component = "RecordDetailModal"
  /\ ModalRendered
  /\ detailColumns = << <<"b">>, <<"a">> >>
  /\ rowKeys(detailRow) = << <<"c">>, <<"a">>, <<"b">> >>
  /\ orderedKeys(detailRow, detailColumns) = << <<"b">>, <<"a">>, <<"c">> >>

(* ----------------------------------------------------------------------- *)
(* C16: the summary field                                                  *)
(* ----------------------------------------------------------------------- *)

\* C16: the summary field is the first field of the primary section when
\* that section is not empty, otherwise the first field of the remaining
\* section; no summary is shown exactly when the row has no field.
C16_SummaryField ==
  ModalRendered =>
    LET primary == primaryKeys(detailRow, detailColumns)
        remaining == remainingKeys(detailRow, detailColumns)
        summary == summaryKey(detailRow, detailColumns)
    IN /\ primary # <<>> => (~summary.isNull /\ summary.key = primary[1])
       /\ (primary = <<>> /\ remaining # <<>>)
            => (~summary.isNull /\ summary.key = remaining[1])
       /\ ~SummaryPillShown <=> rowKeys(detailRow) = <<>>

\* The modal shows a row whose only field has the empty name, and no summary.
C16_FieldWithoutSummary ==
  /\ component = "RecordDetailModal"
  /\ ModalRendered
  /\ rowKeys(detailRow) = << <<>> >>
  /\ ~SummaryPillShown

(* ----------------------------------------------------------------------- *)
(* C17: computing a view leaves the caller's array alone                   *)
(* ----------------------------------------------------------------------- *)

\* The operations of a table that make it compute its view again.
ViewOps == {"sort", "search", "page", "pageSize", "previous", "next", "effect"}

\* The caller's array is one of the arrays the caller delivered.
InputIsDelivered ==
  /\ component = "DataTable" => data \in Arrays \cup {Null}
  /\ component = "ModalTable" => rows \in Arrays \cup {Null}

\* Without a search term and without a sort key the view is the input.
PlainViewIsInput ==
  (trim(search) = <<>> /\ sortKey = NoKey) =>
    /\ (component = "DataTable" /\ hasData(data)) => working = data.rows
    /\ (component = "ModalTable" /\ ~resetPending)
         => processedRows = safeRows(rows)

\* A search, sort, page or page-size step leaves the caller's array as it is.
ViewStepKeepsInput ==
  (component \in {"DataTable", "ModalTable"} /\ last'.op \in ViewOps)
    => (data' = data /\ rows' = rows)

StatedBodyState ==
  IF isLoading THEN "loading"
  ELSE IF data.isNull \/ Len(data.rows) = 0 THEN "empty"
  ELSE IF \A i \in 1..Len(data.rows) : ~StatedMatch(data.rows[i], search)
       THEN "noresult"
  ELSE "table"

BodyStateAsStated ==
  component = "DataTable" =>
    /\ BodyState(isLoading, data, pageData) = StatedBodyState
    /\ (BodyState(isLoading, data, pageData) = "table") <=> TableShown
    /\ BodyMessage("empty") # BodyMessage("noresult")
    /\ BodyMessage("empty") # ""
    /\ BodyMessage("noresult") # ""

\* No step of DataTable itself, and no delivery of rows, sets the error.
EmptinessIsNoError ==
  (component = "DataTable"
     /\ last'.op \in {"sort", "search", "page", "pageSize", "data"})
    => error' = error

\* C18: DataTable shows one body state, chosen in the precedence loading,
\* no data (row collection null or empty), no result (no row matches the
\* search), table; no data and no result have different messages and neither
\* sets the error.
C18_BodyStates ==
  /\ []BodyStateAsStated
  /\ [][EmptinessIsNoError]_vars

\* A search that no row matches: the no-result message, and no error.
C18_NoResultWithoutError ==
  /\ component = "DataTable"
  /\ last.op = "search"
  /\ hasData(data)
  /\ BodyState(isLoading, data, pageData) = "noresult"
  /\ error = NoError

(* ----------------------------------------------------------------------- *)
(* C19: the page index of ModalTable                                       *)
(* ----------------------------------------------------------------------- *)

\* Once the reset effect has run, the stored index is a page of the view.
SettledPageIndexInRange ==
  (component = "ModalTable" /\ ~resetPending)
    => (0 <= pageIndex /\ pageIndex <= pageCount - 1)

\* A change of search, sort key, sort direction or rows prop schedules the
\* effect, and the effect stores page 0.
ChangeResetsPageIndex ==
  component = "ModalTable" =>
    /\ (\/ search' # search
        \/ sortKey' # sortKey
        \/ sortDirection' # sortDirection
        \/ rows' # rows
        \/ last'.op = "data")
         => resetPending'
    /\ (resetPending /\ ~resetPending') => pageIndex' = 0
    /\ resetPending => ~resetPending'

\* Previous and next move by one page inside [0, pageCount - 1].
ControlsStayInRange ==
  (component = "ModalTable" /\ last'.op \in {"previous", "next"}) =>
    /\ pageCount' = pageCount
    /\ 0 <= pageIndex' /\ pageIndex' <= pageCount - 1
    /\ last'.op = "previous" => pageIndex' = pageIndex - 1
    /\ last'.op = "next" => pageIndex' = pageIndex + 1

\* C19: in ModalTable a change of the search text, the sort key, the sort
\* direction or the rows prop resets the stored page index to 0, previous
\* and next keep it within [0, pageCount - 1], and once these operations
\* have settled 0 <= pageIndex <= pageCount - 1.
C19_ModalPageIndex ==
  /\ []SettledPageIndexInRange
  /\ [][ChangeResetsPageIndex]_vars
  /\ [][ControlsStayInRange]_vars

\* The effect has just taken the index from a later page back to 0.
C19_ResetFromLaterPage ==
  /\ component = "ModalTable"
  /\ last.op = "effect"
  /\ last.page > 0
  /\ pageIndex = 0
  /\ ~resetPending

(* ----------------------------------------------------------------------- *)
(* C20: the order of a sorted view                                         *)
(* ----------------------------------------------------------------------- *)

\* The normalized value as stated: a number is itself, a boolean is 0 or 1,
\* a string is lower-cased, null and an absent field are the empty string.
StatedSortValue(row, key) ==
  LET v == Field(row, key)
  IN CASE v.t = "number" -> [isNumber |-> TRUE, n |-> v.n, s |-> <<>>]
       [] v.t = "boolean" -> [isNumber |-> TRUE, n |-> v.n, s |-> <<>>]
       [] v.t = "string" -> [isNumber |-> FALSE, n |-> 0, s |-> toLowerCase(v.s)]
       [] OTHER -> [isNumber |-> FALSE, n |-> 0, s |-> <<>>]

\* Numbers by magnitude, strings by their code units.
StatedLess(x, y) ==
  IF x.isNumber /\ y.isNumber THEN x.n < y.n
  ELSE IF ~x.isNumber /\ ~y.isNumber THEN StringLess(x.s, y.s)
  ELSE FALSE

\* The field is a number in every row, a boolean in every row, or a string
\* (or null, or absent) in every row.
OneKindOfValue(list, key) ==
  LET kinds == {Field(list[i], key).t : i \in 1..Len(list)}
  IN \/ kinds \subseteq {"number"}
     \/ kinds \subseteq {"boolean"}
     \/ kinds \subseteq {"string", "null", "undefined"}

InStatedOrder(view, key, dir) ==
  \A i, j \in 1..Len(view) :
    i < j =>
      IF dir = "asc"
      THEN ~StatedLess(StatedSortValue(view[j], key), StatedSortValue(view[i], key))
      ELSE ~StatedLess(StatedSortValue(view[i], key), StatedSortValue(view[j], key))

SortedAsStated(view, input, srch, key, dir) ==
  (key # NoKey /\ OneKindOfValue(view, key)) =>
    /\ HoldsTheMatches(view, input, srch)
    /\ InStatedOrder(view, key, dir)

\* C20: with a sort key set and the values of that field all numbers, all
\* booleans or all strings, the sorted view is a permutation of the filtered
\* rows, non-decreasing in normalized value when ascending and non-increasing
\* when descending; null and absent values count as the empty string.
C20_SortedViewOrder ==
  /\ (component = "DataTable" /\ hasData(data))
       => SortedAsStated(working, data.rows, search, sortKey, sortDirection)
  /\ component = "ModalTable"
       => SortedAsStated(processedRows, safeRows(rows), search, sortKey,
                         sortDirection)

\* A boolean column sorted descending: true, true, false.
C20_BooleansDescending ==
  /\ component = "DataTable"
  /\ data = ArrayOf(RowsFlags)
  /\ trim(search) = <<>>
  /\ sortKey = "k"
  /\ sortDirection = "desc"
  /\ working = <<RowsFlags[1], RowsFlags[3], RowsFlags[2]>>

(* ----------------------------------------------------------------------- *)
(* C21: the detail modal shows the answer to its own request               *)
(* ----------------------------------------------------------------------- *)

\* C21: the rows shown in the open detail modal are the response to the
\* request of the most recent open action, and an answer to an earlier
\* request never replaces the rows or the error of the modal opened since.
C21_ModalShowsLatestRequest ==
  /\ [](( /\ component = "SiteBoardModal"
          /\ modalKind # NoKind
          /\ modalRows # NoModalRows) => modalRows.id = modalOpens)
  /\ [][( /\ component = "SiteBoardModal"
          /\ last'.op = "modalSettle"
          /\ last' # last
          /\ last'.num < modalOpens)
         => UNCHANGED <<modalRows, modalError>>]_vars

\* Modal B is open and shows the rows of the request of modal A.
C21_RowsOfEarlierModal ==
  /\ component = "SiteBoardModal"
  /\ modalKind = "under_maintenance_with_solar"
  /\ modalOpens = 2
  /\ modalRows.shape = "array"
  /\ modalRows.id = 1
  /\ modalRows.url[1] = "/api/v1/sites/not_under_maintenance"

(* ----------------------------------------------------------------------- *)
(* C22: a 2xx body that is not an array                                    *)
(* ----------------------------------------------------------------------- *)

\* C22: a 2xx answer to the detail request whose JSON body is not an array
\* is shown as an error message and is never stored as the rows handed to
\* ModalTable.
C22_NonArrayBodyIsAnError ==
  /\ [](component = "SiteBoardModal" => modalRows.shape # "object")
  /\ [][( /\ component = "SiteBoardModal"
          /\ last'.op = "modalSettle"
          /\ last' # last
          /\ last'.text = <<"object">>)
         => modalError' # NoError]_vars

\* The open modal hands ModalTable the non-array body of its own request,
\* and shows no error.
C22_ObjectHandedToModalTable ==
  /\ component = "SiteBoardModal"
  /\ modalKind # NoKind
  /\ modalRows.shape = "object"
  /\ modalRows.id = modalOpens
  /\ modalError = NoError
  /\ ~modalLoading

(* ----------------------------------------------------------------------- *)
(* C23: a click on a bar of the energie chart                              *)
(* ----------------------------------------------------------------------- *)

\* The URL as stated: the sites endpoint, is_under_maintenance=true, the
\* other filter field as it is, energie=the clicked category, the limit.
StatedBarUrl(f, clicked) ==
  <<"/api/v1/sites", "?", "is_under_maintenance", "=", "true">>
    \o (IF f.has_solar # "all" THEN <<"&", "has_solar", "=", f.has_solar>>
        ELSE <<>>)
    \o <<"&", "energie", "=", clicked, "&", "limit", "=", "5000">>

BarClick ==
  /\ component = "SiteBoardModal"
  /\ last'.op = "openModalCustom"
  /\ last' # last

\* C23: a click on a bar opens the custom modal with a request built from
\* the current filters with is_under_maintenance forced to true and energie
\* forced to the clicked category, the other fields as they are; the filter
\* state is unchanged and no stats or chart request is issued.
C23_BarClickForcesFilters ==
  [][BarClick =>
       /\ modalKind' = "custom"
       /\ modalRequests' \ modalRequests
            = {ModalFetch(modalOpens', StatedBarUrl(filters, last'.text[1]))}
       /\ modalCustom'.endpointWithQuery = StatedBarUrl(filters, last'.text[1])
       /\ UNCHANGED boardVars]_vars

\* The Solar bar was clicked under the filters not in maintenance, with
\* solar, energie Grid.
C23_SolarBarUnderOtherFilters ==
  /\ component = "SiteBoardModal"
  /\ last.op = "openModalCustom"
  /\ last.text = <<"Solar">>
  /\ filters = [is_under_maintenance |-> "false", has_solar |-> "true",
                energie |-> <<"Grid">>]
  /\ modalKind = "custom"
  /\ \E r \in modalRequests :
       r.url = <<"/api/v1/sites", "?", "is_under_maintenance", "=", "true",
                 "&", "has_solar", "=", "true", "&", "energie", "=", "Solar",
                 "&", "limit", "=", "5000">>
  /\ requests = {}

(* ----------------------------------------------------------------------- *)
(* C24: the stored page of DataTable                                       *)
(* ----------------------------------------------------------------------- *)

\* C24: whenever DataTable has data, 1 <= currentPage <= totalPages, so the
\* footer text and the disabled state of its buttons describe the page whose
\* rows are displayed.
C24_StoredPageInRange ==
  (component = "DataTable" /\ hasData(data))
    => (1 <= currentPage /\ currentPage <= totalPages)

\* The footer reads "Page 3 / 2" over the rows of page 2, and its next and
\* last buttons are enabled.
C24_FooterBeyondLastPage ==
  /\ component = "DataTable"
  /\ FooterShown
  /\ currentPage = 3
  /\ totalPages = 2
  /\ pageData = slice(working, 2, 4)
  /\ currentPage # totalPages

(* ----------------------------------------------------------------------- *)
(* C25: isLoading while a request is pending                               *)
(* ----------------------------------------------------------------------- *)

\* C25: in useApiTable isLoading is true in every state in which a request
\* of the hook is pending, and it becomes false only when none is pending.
C25_LoadingWhilePending ==
  /\ []((component = "useApiTable" /\ fetches # {}) => isLoading)
  /\ [][(component = "useApiTable" /\ isLoading /\ ~isLoading')
         => fetches' = {}]_vars

\* One of two overlapping calls has ended: the other is pending and the hook
\* says it is not loading.
C25_IdleWithPendingCall ==
  /\ component = "useApiTable"
  /\ issued = 2
  /\ Cardinality(fetches) = 1
  /\ last.op = "settle"
  /\ ~isLoading

(* ----------------------------------------------------------------------- *)
(* C26: data and error exclude each other                                  *)
(* ----------------------------------------------------------------------- *)

\* C26: in useApiTable, when no request is pending, data and error are not
\* both non-null.
C26_DataOrErrorNotBoth ==
  (component = "useApiTable" /\ fetches = {})
    => ~(~data.isNull /\ error # NoError)

\* Nothing is pending and the hook exposes rows together with the error
\* message of another call.
C26_RowsWithErrorMessage ==
  /\ component = "useApiTable"
  /\ fetches = {}
  /\ data = ArrayOf(RowsPaged)
  /\ error = ApiError
  /\ ~isLoading

(* ----------------------------------------------------------------------- *)
(* C27: a closed modal holds nothing                                       *)
(* ----------------------------------------------------------------------- *)

\* C27: whenever the detail modal is closed (modalKind is null) its rows
\* and its error are null, also when it was closed with its request pending.
C27_ClosedModalIsEmpty ==
  (component = "SiteBoardModal" /\ modalKind = NoKind)
    => (modalRows = NoModalRows /\ modalError = NoError)

\* The modal was closed with its request pending, and the answer has filled
\* the rows of the closed modal.
C27_ClosedModalRepopulated ==
  /\ component = "SiteBoardModal"
  /\ modalKind = NoKind
  /\ modalOpens = 1
  /\ modalRequests = {}
  /\ last.op = "modalSettle"
  /\ modalRows.shape = "array"

(* ----------------------------------------------------------------------- *)
(* C28: the comparator is antisymmetric                                    *)
(* ----------------------------------------------------------------------- *)

\* The rows the table of the state sorts.
RowsToSort ==
  IF component = "DataTable" THEN (IF hasData(data) THEN data.rows ELSE <<>>)
  ELSE safeRows(rows)

\* C28: for every pair of rows, compare(a, b) = -compare(b, a), also when
\* the sort field is a number in one row and a non-numeric string in the
\* other.
C28_ComparatorAntisymmetric ==
  (component \in {"DataTable", "ModalTable"} /\ sortKey # NoKey) =>
    \A i, j \in 1..Len(RowsToSort) :
      Compare(component, RowsToSort[i], RowsToSort[j], sortKey, sortDirection)
        = 0 - Compare(component, RowsToSort[j], RowsToSort[i], sortKey,
                      sortDirection)

\* The table sorts on k, where one row holds 'b' and another 5: each comes
\* after the other.
C28_EachAfterTheOther ==
  /\ component = "DataTable"
  /\ data = ArrayOf(RowsMixed)
  /\ sortKey = "k"
  /\ sortDirection = "asc"
  /\ DataTableCompare(RowsMixed[1], RowsMixed[2], "k", "asc") = 1
  /\ DataTableCompare(RowsMixed[2], RowsMixed[1], "k", "asc") = 1

(* ----------------------------------------------------------------------- *)
(* C29: the page-size selector stays available                             *)
(* ----------------------------------------------------------------------- *)

\* C29: in every state of DataTable in which rows are displayed the footer
\* with the page-size selector is rendered, whatever page sizes were chosen
\* before.
C29_PageSizeSelectorAvailable ==
  (component = "DataTable" /\ TableShown) => FooterShown

\* The user chose a page size that holds all matching rows: the rows are
\* displayed on one page and the footer with the selector is gone.
C29_SelectorGoneAfterLargeSize ==
  /\ component = "DataTable"
  /\ last.op = "pageSize"
  /\ TableShown
  /\ pageSizeState >= totalItems
  /\ totalPages = 1
  /\ ~FooterShown

(* ----------------------------------------------------------------------- *)
(* C30: no loading flag stays up                                           *)
(* ----------------------------------------------------------------------- *)

\* A loading flag of the observed container is true.
LoadingFlagUp ==
  \/ component = "useApiTable" /\ isLoading
  \/ component = "SiteBoard" /\ (statsLoading \/ energieLoading)
  \/ component = "SiteBoardModal" /\ modalLoading

\* A request whose answer the container still waits for.
AwaitedRequests ==
  CASE component = "useApiTable" -> fetches
    [] component = "SiteBoard" -> {r \in requests : r.mounted}
    [] component = "SiteBoardModal" -> modalRequests
    [] OTHER -> {}

\* A flag goes up only in the step of a triggering event: a reload, a filter
\* change, a modal open.
FlagRisesOnEvent ==
  (~LoadingFlagUp /\ LoadingFlagUp')
    => (events' # events \/ changes' # changes \/ modalOpens' # modalOpens)

====
